---- MODULE Spec2Model ----
(***************************************************************************)
(* TamaBotchi desktop pet: the Electron host process (window handles) and  *)
(* the panel's conversation sync engine (SummaryPanel / ConversationCard). *)
(***************************************************************************)
EXTENDS Integers, Sequences, FiniteSets, Bags, TLC

VARIABLES
    \* ---- host process (electron main) ----
    phase,          \* "starting" | "running" | "quit"
    platform,       \* process.platform: "darwin" | "other"
    workArea,       \* screen.getPrimaryDisplay().workAreaSize: [width, height]
    petWindow,      \* let petWindow: BrowserWindow | null
    summaryWindow,  \* let summaryWindow: BrowserWindow | null
    wins,           \* every BrowserWindow ever constructed: [kind, st]
    hev,            \* history: the host event handled last
    \* ---- panel UI process (SummaryPanel and its ConversationCards) ----
    panelLife,      \* "init" | "mounted" | "closed"
    interval,       \* the setInterval(loadConversations, 8000) timer is set
    closeSent,      \* 'close-summary' messages sent to the host
    activeTab,      \* useState<PanelTab>('messages')
    mirror,         \* useState<Conversation[]>([]): conversations
    unreadCount,    \* useState(0)
    panelLoading,   \* useState(true): loading
    summarizingAll, \* useState(false)
    cards,          \* per conversation_id: the mounted card's useState values
    reqs,           \* bag of axios requests in flight
    \* ---- remote conversation store ----
    nconv,          \* conversations 1..nconv exist
    activity,       \* last_activity of each conversation
    storeRead,      \* ids the store holds as read
    storeSumm,      \* ids the store holds a summary for
    \* ---- history ----
    resolved,       \* ids for which a markRead has resolved successfully
    lastCount,      \* unread_count of the response applied last
    ev,             \* the step just taken
    \* ---- the bounds this run is explored under
    lim,
    \* ---- companion UI process (BunnyPet) ----
    bunnyLife,        \* "init" | "mounted" | "closed"
    pollInterval,     \* the setInterval(pollUnread, 5000) timer is set
    bridge,           \* window.electronAPI is defined
    bunnyUnreadCount, \* useState(0): unreadCount
    mood,             \* useState('idle')
    bouncing,         \* useState(false)
    bounceTimers,     \* pending setTimeout(() => setBouncing(false), ...)
    polls,            \* fetchUnreadCount calls in flight
    toggleSent,       \* 'toggle-summary' messages sent to the host
    bev,              \* history: the step BunnyPet took last
    \* ---- a UI process at load (App) ----
    hash,             \* window.location.hash, a string as a sequence of pieces
    view,             \* useState<'pet' | 'summary'>('pet')
    appLife,          \* "rendered" | "resolved": the effect of App has run
    \* ---- the chat view (ChatView) ----
    chatMessages,     \* useState<ChatMessage[]>([GREETING]): messages
    chatInput,        \* useState(''): input, a string as a sequence of characters
    chatLoading,      \* useState(false): loading
    chatReqs          \* chatWithTamaBotchi calls in flight: text, ChatView still mounted (live)

hostVars == <<phase, platform, workArea, petWindow, summaryWindow, wins, hev>>
uiVars == <<panelLife, interval, closeSent, activeTab, mirror, unreadCount, panelLoading,
            summarizingAll, cards, reqs>>
storeVars == <<nconv, activity, storeRead, storeSumm, lim>>
histVars == <<resolved, lastCount, ev>>
panelVars == <<uiVars, storeVars, histVars>>
bunnyVars == <<bunnyLife, pollInterval, bridge, bunnyUnreadCount, mood, bouncing, bounceTimers,
               polls, toggleSent, bev>>
appVars == <<hash, view, appLife>>
chatVars == <<chatMessages, chatInput, chatLoading, chatReqs>>
vars == <<hostVars, panelVars, bunnyVars, appVars, chatVars>>

\* null
Null == 0

\* ---------------------------------------------------------------- bounds
\* BrowserWindow objects constructed over one run of the host
MaxWindows == 4
\* work-area sizes the primary display can take
MaxDisplay == 2

\* ------------------------------------------------------------------ host
\* A BrowserWindow is "open" from construction, "closing" once close() was
\* called on it or the user/OS asked it to close, and "destroyed" when its
\* 'closed' event has been emitted.
WindowIds == 1..Len(wins)
OpenWindows(kind) == {w \in WindowIds : wins[w].kind = kind /\ wins[w].st = "open"}
UndestroyedWindows == {w \in WindowIds : wins[w].st # "destroyed"}

PET_WIDTH == 220
PET_HEIGHT == 380
SUMMARY_WIDTH == 420
SUMMARY_HEIGHT == 620
\* work-area sizes of the primary display: 640 x 540, 1280 x 1080, ...
Display(k, j) == [width |-> 640 * k, height |-> 540 * j]
Displays == {Display(k, k) : k \in 1..MaxDisplay}

\* (a panel placed as if the companion window were not there)
summaryBounds_NoPetOffset(wa) ==
    [x |-> wa.width - SUMMARY_WIDTH - 40,
     y |-> wa.height - SUMMARY_HEIGHT - 40,
     width |-> SUMMARY_WIDTH, height |-> SUMMARY_HEIGHT]
\* the width, height, x, y options of createSummaryWindow's BrowserWindow
summaryBounds(wa) ==
    [x |-> wa.width - SUMMARY_WIDTH - PET_WIDTH - 60,
     y |-> wa.height - SUMMARY_HEIGHT - 40,
     width |-> SUMMARY_WIDTH, height |-> SUMMARY_HEIGHT]
\* the width, height, x, y options of createPetWindow's BrowserWindow
petBounds(wa) ==
    [x |-> wa.width - PET_WIDTH - 40,
     y |-> wa.height - PET_HEIGHT - 40,
     width |-> PET_WIDTH, height |-> PET_HEIGHT]

\* the renderer process of a window before its page has run, and once the
\* window is destroyed. After App's first render ("first": a render
\* scheduled by App's setView has not run yet) and mounted, it holds what
\* App shows (view) and the state of the view: of BunnyPet (interval, polls
\* in flight, unreadCount, mood, bouncing)
\* or of SummaryPanel (interval, fetches in flight, each with the number of
\* conversations the store had when it was sent, conversations, unreadCount);
\* and what outlives an unmounted BunnyPet: its polls still in flight (stray)
\* and the bounce timeouts of the process (timeouts)
Renderer(life) ==
    [life |-> life, view |-> "none", interval |-> FALSE,
     polls |-> 0, stray |-> 0, fetches |-> <<>>,
     conversations |-> <<>>, unreadCount |-> 0, mood |-> "idle", bouncing |-> FALSE,
     timeouts |-> 0]

\* new BrowserWindow({...}), loadURL / loadFile with its hash: the next
\* window object (screen: the work-area size read for it, screenW x screenH)
NewWindow(kind) ==
    [kind |-> kind, st |-> "open", screen |-> workArea,
     bounds |-> IF kind = "pet" THEN petBounds(workArea) ELSE summaryBounds(workArea),
     hash |-> IF kind = "pet" THEN <<"#", "pet">> ELSE <<"#", "summary">>,
     ui |-> Renderer("loading")]

\* BrowserWindow.close() on window w
CloseCall(w) == [wins EXCEPT ![w].st = IF @ = "open" THEN "closing" ELSE @]

\* ---- history of the host event handled last
\* op: the event; run, prior, closed, shown, held: for toggle-summary, how
\* many toggles came in succession (1 or 2), what the panel was before the
\* first of them, the window that one closed, how many panel windows were
\* live before it, and whether the handle was then absent or on a live
\* window
PanelStatus ==
    IF summaryWindow # Null /\ OpenWindows("panel") = {summaryWindow} THEN "open"
    ELSE IF summaryWindow = Null /\ OpenWindows("panel") = {} THEN "closed"
    ELSE "other"
NoHostEv == [op |-> "none", run |-> 0, prior |-> "none", closed |-> Null, shown |-> 0,
             held |-> TRUE]
HostEv(op) == [NoHostEv EXCEPT !.op = op]
ToggleEv ==
    IF hev.op = "toggle" /\ hev.run = 1
    THEN [hev EXCEPT !.run = 2]
    ELSE [op |-> "toggle", run |-> 1, prior |-> PanelStatus, closed |-> summaryWindow,
          shown |-> Cardinality(OpenWindows("panel")),
          held |-> (summaryWindow = Null \/ wins[summaryWindow].st = "open")]
ClosedEv(w) ==
    IF hev.op = "toggle" /\ hev.run = 2 /\ hev.closed = w
    THEN [hev EXCEPT !.op = "closedLate"]
    ELSE HostEv("closed")

createPetWindow ==
    /\ Len(wins) < lim.windows
    /\ wins' = Append(wins, NewWindow("pet"))
    /\ petWindow' = Len(wins) + 1
    /\ UNCHANGED summaryWindow

\* (close-summary that keeps the handle)
closeSummaryWindow_KeepHandle ==
    IF summaryWindow # Null
    THEN /\ wins' = CloseCall(summaryWindow)
         /\ UNCHANGED <<petWindow, summaryWindow>>
    ELSE UNCHANGED <<wins, petWindow, summaryWindow>>

\* (a createSummaryWindow that stores the new window in the other handle)
createSummaryWindow_WrongHandle ==
    IF summaryWindow # Null
    THEN UNCHANGED <<wins, petWindow, summaryWindow>>
    ELSE /\ Len(wins) < lim.windows
         /\ wins' = Append(wins, NewWindow("panel"))
         /\ petWindow' = Len(wins) + 1
         /\ UNCHANGED summaryWindow

createSummaryWindow ==
    IF summaryWindow # Null
    THEN \* show(), focus(): the window is already shown; no handle changes
         UNCHANGED <<wins, petWindow, summaryWindow>>
    ELSE /\ Len(wins) < lim.windows
         /\ wins' = Append(wins, NewWindow("panel"))
         /\ summaryWindow' = Len(wins) + 1
         /\ UNCHANGED petWindow

closeSummaryWindow ==
    IF summaryWindow # Null
    THEN /\ wins' = CloseCall(summaryWindow)
         /\ summaryWindow' = Null
         /\ UNCHANGED petWindow
    ELSE UNCHANGED <<wins, petWindow, summaryWindow>>

\* (a toggle that only ever opens)
onToggleSummary_OpenOnly == createSummaryWindow
\* the listener of 'toggle-summary'
onToggleSummary ==
    IF summaryWindow # Null THEN closeSummaryWindow ELSE createSummaryWindow

\* (an activation that creates a companion window every time)
onActivate_Always == createPetWindow
\* the listener of 'activate'
onActivate ==
    IF petWindow = Null
    THEN createPetWindow
    ELSE UNCHANGED <<wins, petWindow, summaryWindow>>

\* app.whenReady().then(...)
WhenReady ==
    /\ phase = "starting"
    /\ UNCHANGED <<panelVars, bunnyVars, appVars, chatVars>>
    /\ createPetWindow
    /\ hev' = HostEv("ready")
    /\ phase' = "running"
    /\ UNCHANGED <<platform, workArea>>

\* ipcMain.on('open-summary')
IpcOpenSummary ==
    /\ phase = "running"
    /\ UNCHANGED <<panelVars, bunnyVars, appVars, chatVars>>
    /\ createSummaryWindow
    /\ hev' = HostEv("open")
    /\ UNCHANGED <<phase, platform, workArea>>

\* ipcMain.on('close-summary')
IpcCloseSummary ==
    /\ phase = "running"
    /\ UNCHANGED <<panelVars, bunnyVars, appVars, chatVars>>
    /\ closeSummaryWindow
    /\ hev' = HostEv("close")
    /\ UNCHANGED <<phase, platform, workArea>>

\* ipcMain.on('toggle-summary')
IpcToggleSummary ==
    /\ phase = "running"
    /\ UNCHANGED <<panelVars, bunnyVars, appVars, chatVars>>
    /\ onToggleSummary
    /\ hev' = ToggleEv
    /\ UNCHANGED <<phase, platform, workArea>>

\* app.on('activate'): emitted on macOS only
Activate ==
    /\ phase = "running"
    /\ UNCHANGED <<panelVars, bunnyVars, appVars, chatVars>>
    /\ platform = "darwin"
    /\ onActivate
    /\ hev' = HostEv("activate")
    /\ UNCHANGED <<phase, platform, workArea>>

\* the user or the OS closes window w
UserClose(w) ==
    /\ phase = "running"
    /\ UNCHANGED <<panelVars, bunnyVars, appVars, chatVars>>
    /\ wins[w].st = "open"
    /\ wins' = CloseCall(w)
    /\ hev' = HostEv("userClose")
    /\ UNCHANGED <<phase, platform, workArea, petWindow, summaryWindow>>

\* window-all-closed
WindowAllClosed(ws) ==
    IF {w \in 1..Len(ws) : ws[w].st # "destroyed"} = {} /\ platform # "darwin"
    THEN "quit"
    ELSE phase

\* (windows without a 'closed' listener)
WindowClosed_NoListener(w) ==
    /\ phase = "running"
    /\ UNCHANGED <<panelVars, bunnyVars, appVars, chatVars>>
    /\ wins[w].st = "closing"
    /\ wins' = [wins EXCEPT ![w].st = "destroyed", ![w].ui = Renderer("gone")]
    /\ UNCHANGED <<petWindow, summaryWindow>>
    /\ phase' = WindowAllClosed(wins')
    /\ hev' = ClosedEv(w)
    /\ UNCHANGED <<platform, workArea>>
\* window w is destroyed and its 'closed' event is emitted: the listener that
\* was registered on w runs, whatever window the handle holds by now
WindowClosed(w) ==
    /\ phase = "running"
    /\ UNCHANGED <<panelVars, bunnyVars, appVars, chatVars>>
    /\ wins[w].st = "closing"
    /\ wins' = [wins EXCEPT ![w].st = "destroyed", ![w].ui = Renderer("gone")]
    /\ IF wins[w].kind = "pet"
       THEN petWindow' = Null /\ UNCHANGED summaryWindow
       ELSE summaryWindow' = Null /\ UNCHANGED petWindow
    /\ phase' = WindowAllClosed(wins')
    /\ hev' = ClosedEv(w)
    /\ UNCHANGED <<platform, workArea>>

\* the primary display's work area changes (resolution, dock, another
\* primary display): the host has no listener for it and reads the size
\* anew at each window creation
DisplayChanged(d) ==
    /\ phase # "quit"
    /\ UNCHANGED <<panelVars, bunnyVars, appVars, chatVars>>
    /\ d # workArea
    /\ workArea' = d
    /\ UNCHANGED <<phase, platform, petWindow, summaryWindow, wins, hev>>

HostInit ==
    /\ phase = "starting"
    /\ platform \in {"darwin", "other"}
    /\ workArea \in Displays
    /\ petWindow = Null
    /\ summaryWindow = Null
    /\ wins = <<>>
    /\ hev = NoHostEv

HostNext ==
    \/ WhenReady
    \/ IpcOpenSummary
    \/ IpcCloseSummary
    \/ IpcToggleSummary
    \/ Activate
    \/ \E w \in WindowIds : UserClose(w)
    \/ \E w \in WindowIds : WindowClosed(w)
    \/ \E d \in Displays : DisplayChanged(d)



\* ------------------------------------------------------- the chat view
\* bounds of the chat model: characters typed, messages of the transcript,
\* chatWithTamaBotchi calls in flight
MaxInputLen == 2
MaxTranscript == 5
MaxChatReqs == 2
RECURSIVE CharsUpTo(_)
CharsUpTo(n) ==
    IF n = 0 THEN {<<>>}
    ELSE LET S == CharsUpTo(n - 1)
         IN S \cup {Append(t, ch) : t \in S, ch \in {" ", "a", "b"}}
Inputs == CharsUpTo(MaxInputLen)

\* String.prototype.trim()
RECURSIVE trimStart(_)
trimStart(str) ==
    IF str # <<>> /\ Head(str) = " " THEN trimStart(Tail(str)) ELSE str
RECURSIVE trimEnd(_)
trimEnd(str) ==
    IF str # <<>> /\ str[Len(str)] = " "
    THEN trimEnd(SubSeq(str, 1, Len(str) - 1))
    ELSE str
trim(str) == trimEnd(trimStart(str))

\* a ChatMessage (re is history: the text of the request an assistant message
\* answers)
GREETING == [role |-> "assistant", content |-> "greeting", re |-> <<>>]
userMsg(text) == [role |-> "user", content |-> text, re |-> <<>>]
reply(text) == [role |-> "assistant", content |-> "reply", re |-> text]
errMsg(text) == [role |-> "assistant", content |-> "sorry", re |-> text]
\* the sequence s without its k-th element
RemoveAt(s, k) == SubSeq(s, 1, k - 1) \o SubSeq(s, k + 1, Len(s))

\* {activeTab === 'chat' && <ChatView />}
ChatMounted == panelLife = "mounted" /\ activeTab = "chat"
\* the state of a ChatView is dropped with it; the next one starts from the
\* useState initial values
ChatViewFresh ==
    /\ chatMessages' = <<GREETING>>
    /\ chatInput' = <<>>
    /\ chatLoading' = FALSE
\* the panel leaves tab `from`: a ChatView is unmounted, the requests it
\* awaits go on
ChatViewLeft(from) ==
    IF from = "chat"
    THEN /\ ChatViewFresh
         /\ chatReqs' = [k \in 1..Len(chatReqs) |-> [chatReqs[k] EXCEPT !.live = FALSE]]
    ELSE UNCHANGED chatVars
\* the renderer process ends
ChatViewGone ==
    /\ ChatViewFresh
    /\ chatReqs' = <<>>

\* onChange of the textarea, which is disabled while loading
ChatType(str) ==
    /\ ChatMounted
    /\ UNCHANGED <<hostVars, panelVars, bunnyVars, appVars>>
    /\ ~chatLoading
    /\ str # chatInput
    /\ chatInput' = str
    /\ UNCHANGED <<chatMessages, chatLoading, chatReqs>>

\* sendMessage up to its await
ChatSend ==
    /\ ChatMounted
    /\ UNCHANGED <<hostVars, panelVars, bunnyVars, appVars>>
    /\ LET text == trim(chatInput)
       IN IF text = <<>> \/ chatLoading
          THEN UNCHANGED chatVars
          ELSE /\ Len(chatMessages) + 2 <= MaxTranscript
               /\ Len(chatReqs) < MaxChatReqs
               /\ chatMessages' = Append(chatMessages, userMsg(text))
               /\ chatInput' = <<>>
               /\ chatLoading' = TRUE
               /\ chatReqs' = Append(chatReqs, [text |-> text, live |-> TRUE])

\* chatWithTamaBotchi resolves: the reply is appended to the current
\* transcript; the state updates of an unmounted ChatView are dropped
ChatReply(k) ==
    /\ panelLife = "mounted"
    /\ UNCHANGED <<hostVars, panelVars, bunnyVars, appVars>>
    /\ k \in 1..Len(chatReqs)
    /\ IF chatReqs[k].live
       THEN /\ chatMessages' = Append(chatMessages, reply(chatReqs[k].text))
            /\ chatLoading' = FALSE
       ELSE UNCHANGED <<chatMessages, chatLoading>>
    /\ chatReqs' = RemoveAt(chatReqs, k)
    /\ UNCHANGED chatInput

\* chatWithTamaBotchi rejects: the connection-error message is appended
ChatFail(k) ==
    /\ panelLife = "mounted"
    /\ UNCHANGED <<hostVars, panelVars, bunnyVars, appVars>>
    /\ k \in 1..Len(chatReqs)
    /\ IF chatReqs[k].live
       THEN /\ chatMessages' = Append(chatMessages, errMsg(chatReqs[k].text))
            /\ chatLoading' = FALSE
       ELSE UNCHANGED <<chatMessages, chatLoading>>
    /\ chatReqs' = RemoveAt(chatReqs, k)
    /\ UNCHANGED chatInput

\* handleClear: the clear button is enabled at all times
ChatClear ==
    /\ ChatMounted
    /\ UNCHANGED <<hostVars, panelVars, bunnyVars, appVars>>
    /\ chatMessages' = <<GREETING>>
    /\ chatInput' = <<>>
    /\ UNCHANGED <<chatLoading, chatReqs>>

\* ChatView's useState initial values
ChatInit ==
    /\ chatMessages = <<GREETING>>
    /\ chatInput = <<>>
    /\ chatLoading = FALSE
    /\ chatReqs = <<>>

\* ------------------------------------------------------------ the panel
\* bounds of the panel model: under SpecCard (one card, several calls) ...
CardConvs == 1          \* conversations the store comes to hold
CardFetches == 1        \* GET /pet/conversations requests in flight
CardCalls == 2          \* other requests in flight
CardSummarize == 2      \* handleSummarize invocations in flight per card
\* ... and under SpecList (several conversations, one call)
ListConvs == 2
ListFetches == 1
ListCalls == 1
ListSummarize == 1
\* ... and under SpecPoll (one card, several reconciles, one call)
PollConvs == 1
PollFetches == 2
PollCalls == 1
PollSummarize == 1
\* ... and under SpecDesk: windows constructed, conversations, fetches and
\* polls in flight per renderer, unread_count values 0..DeskPollCount,
\* pending bounce timeouts per renderer
DeskWindows == 3
DeskConvs == 1
DeskFetches == 1
DeskPolls == 1
DeskPollCount == 1
DeskTimeouts == 1
\* last_activity values 1..MaxActivity, unread_count values 0..MaxUnreadCount
MaxActivity == 2
MaxUnreadCount == 1

CardLimits == [convs |-> CardConvs, fetches |-> CardFetches, calls |-> CardCalls,
               summarize |-> CardSummarize, hist |-> TRUE, windows |-> MaxWindows]
ListLimits == [convs |-> ListConvs, fetches |-> ListFetches, calls |-> ListCalls,
               summarize |-> ListSummarize, hist |-> FALSE, windows |-> MaxWindows]

PollLimits == [convs |-> PollConvs, fetches |-> PollFetches, calls |-> PollCalls,
               summarize |-> PollSummarize, hist |-> TRUE, windows |-> MaxWindows]
\* ... and on the desktop (SpecDesk: host and renderers side by side)
DeskLimits == [convs |-> DeskConvs, fetches |-> DeskFetches, calls |-> 0,
               summarize |-> 0, hist |-> FALSE, windows |-> DeskWindows]

NumConvs == lim.convs
MaxFetches == lim.fetches
MaxCalls == lim.calls

\* conversation ids the store can come to hold
ConvIds == 1..NumConvs
\* type PanelTab
Tabs == {"messages", "calendar", "chat"}

\* ---- requests in flight
NoResp == [convs |-> <<>>, unread_count |-> 0]
\* a request just sent; op is the api function, cont the code awaiting it
\* (history: seen, the markReads that had resolved when the store answered;
\* bulk, whether the summarizeAll behind it summarized "all" conversations or
\* "some"; old, a fetch was sent after this one; late, a fetch sent after
\* this one has been applied already; twice, the click behind this request
\* had sent a markRead and a fetch of its own before)
Req(op, id, cont) ==
    [op |-> op, id |-> id, cont |-> cont, st |-> "sent", resp |-> NoResp, seen |-> {},
     bulk |-> "none", old |-> FALSE, late |-> FALSE, twice |-> FALSE]
InFlight == BagToSet(reqs)
One(r) == SetToBag({r})

RECURSIVE SumCopies(_)
SumCopies(S) ==
    IF S = {} THEN 0
    ELSE LET r == CHOOSE x \in S : TRUE
         IN CopiesIn(r, reqs) + SumCopies(S \ {r})
\* the bag b with f applied to each of its requests
RECURSIVE SumOver(_, _)
SumOver(S, b) ==
    IF S = {} THEN 0
    ELSE LET r == CHOOSE x \in S : TRUE
         IN CopiesIn(r, b) + SumOver(S \ {r}, b)
MapBag(b, f) ==
    [x \in {f[r] : r \in BagToSet(b)} |-> SumOver({r \in BagToSet(b) : f[r] = x}, b)]
\* loadConversations() called: one more fetch in flight, sent after the others
Older(r) == IF r.op = "list" THEN [r EXCEPT !.old = TRUE] ELSE r
AllOlder(b) == MapBag(b, [q \in BagToSet(b) |-> Older(q)])
SendFetch(b, cont) == AllOlder(b) (+) One(Req("list", 0, cont))
\* a fetch that was sent last has been applied: the others are late
Later(r) == IF r.op = "list" THEN [r EXCEPT !.late = TRUE] ELSE r
Overtake(b, r) == IF r.old THEN b ELSE MapBag(b, [q \in BagToSet(b) |-> Later(q)])

NumFetches == SumCopies({r \in InFlight : r.op = "list"})
NumCalls == SumCopies({r \in InFlight : r.op # "list"})
NumSummarize(i) == SumCopies({r \in InFlight : r.cont = "hs" /\ r.id = i})
NumSummarizeReqs(i) == SumCopies({r \in InFlight : r.op = "summarize" /\ r.id = i})
\* summarizeAll requests, and the reconciles handleSummarizeAll awaits
NumSummarizeAllReqs == SumCopies({r \in InFlight : r.op = "summarizeAll"})
NumLoadSA == SumCopies({r \in InFlight : r.op = "list" /\ r.cont = "loadSA"})

\* ---- history of the step just taken
\* op: what happened; id, cont: of the request or card concerned; seen, convs,
\* bulk, late: of the list response applied; card, unread: the card's state
\* and the conversation's unread flag the handler found
NoEv == [op |-> "none", id |-> 0, cont |-> "none", seen |-> {}, convs |-> <<>>,
         card |-> [mounted |-> FALSE, summary |-> FALSE, loading |-> FALSE,
                   expanded |-> FALSE],
         unread |-> FALSE, bulk |-> "none", late |-> FALSE]
Ev(op, id, cont) == [NoEv EXCEPT !.op = op, !.id = id, !.cont = cont]

\* ---- the remote store (GET /pet/conversations and the POSTs)
Conv(i) == [id |-> i, last_activity |-> activity[i],
            read |-> i \in storeRead, summary |-> i \in storeSumm]
OrdersOf(n) == {f \in [1..n -> 1..n] : \A a, b \in 1..n : a # b => f[a] # f[b]}
\* the list responses the store gives while it holds n conversations: its
\* conversations in any order, with the unread count it keeps itself
ListResponsesOf(n) ==
    {[convs |-> [k \in 1..n |-> Conv(f[k])], unread_count |-> c] :
        f \in OrdersOf(n), c \in 0..MaxUnreadCount}
\* the list responses the store can give now
ListResponses == ListResponsesOf(nconv)

\* a conversation is created by its first inbound message
StoreInbound ==
    /\ panelLife # "closed"
    /\ UNCHANGED <<hostVars, bunnyVars, appVars, chatVars>>
    /\ nconv < NumConvs
    /\ nconv' = nconv + 1
    /\ ev' = NoEv
    /\ UNCHANGED <<activity, storeRead, storeSumm, lim, uiVars, resolved, lastCount>>

\* the store handles request r and its response starts back
Serve(r) ==
    /\ r \in InFlight
    /\ UNCHANGED <<hostVars, bunnyVars, appVars, chatVars>>
    /\ r.st = "sent"
    /\ \E resp \in (IF r.op = "list" THEN ListResponses ELSE {NoResp}),
          S \in (IF r.op = "summarizeAll" THEN SUBSET (1..nconv)
                 ELSE IF r.op = "summarize" THEN {{r.id}} ELSE {{}}) :
          /\ reqs' = (reqs (-) One(r))
                       (+) One([r EXCEPT !.st = "served", !.resp = resp,
                                         !.seen = IF r.op = "list" THEN resolved ELSE {},
                                         !.bulk = IF r.op # "summarizeAll" THEN @
                                                  ELSE IF S = 1..nconv THEN "all" ELSE "some"])
          /\ storeSumm' = storeSumm \cup S
    /\ storeRead' = CASE r.op = "markRead" -> storeRead \cup {r.id}
                      [] r.op = "markAll" -> 1..nconv
                      [] OTHER -> storeRead
    /\ ev' = NoEv
    /\ UNCHANGED <<nconv, activity, lim, resolved, lastCount>>
    /\ UNCHANGED <<panelLife, interval, closeSent, activeTab, mirror, unreadCount, panelLoading,
                   summarizingAll, cards>>

\* ---- SummaryPanel
\* Array.prototype.sort((a, b) => b.last_activity - a.last_activity): stable
RECURSIVE InsertDesc(_, _)
InsertDesc(x, s) ==
    IF s = <<>> THEN <<x>>
    ELSE IF s[Len(s)].last_activity >= x.last_activity
         THEN Append(s, x)
         ELSE Append(InsertDesc(x, SubSeq(s, 1, Len(s) - 1)), s[Len(s)])
\* (a sort that leaves the response's order)
SortDesc_Unsorted(s) == s
RECURSIVE SortDesc(_)
SortDesc(s) ==
    IF s = <<>> THEN <<>>
    ELSE InsertDesc(s[Len(s)], SortDesc(SubSeq(s, 1, Len(s) - 1)))

MirrorIds(m) == {m[k].id : k \in 1..Len(m)}
Entry(m, i) == m[CHOOSE k \in 1..Len(m) : m[k].id = i]

\* ---- ConversationCard state: useState(conversation.summary), useState(false) x 2
NoCard == [mounted |-> FALSE, summary |-> FALSE, loading |-> FALSE, expanded |-> FALSE]
NewCard(conversation) ==
    [mounted |-> TRUE, summary |-> conversation.summary, loading |-> FALSE, expanded |-> FALSE]

\* conversations.map(convo => <ConversationCard key={convo.conversation_id} .../>)
\* under activeTab === 'messages': a card keeps its state while its key stays
RenderCards(old, m, tab) ==
    [i \in ConvIds |->
        IF tab # "messages" \/ i \notin MirrorIds(m) THEN NoCard
        ELSE IF old[i].mounted THEN old[i]
        ELSE NewCard(Entry(m, i))]

\* the cards of `old` that `new` no longer holds; their pending handleSummarize
\* continuations (cont "hs") still run but set the state of no mounted card
\* (cont "hsx")
Unmounted(old, new) == {i \in ConvIds : old[i].mounted /\ ~new[i].mounted}
Orphan(r, U) == IF r.cont = "hs" /\ r.id \in U THEN [r EXCEPT !.cont = "hsx"] ELSE r
RECURSIVE SumInto(_, _, _, _)
SumInto(b, S, x, U) ==
    IF S = {} THEN 0
    ELSE LET r == CHOOSE y \in S : TRUE
         IN (IF Orphan(r, U) = x THEN CopiesIn(r, b) ELSE 0) + SumInto(b, S \ {r}, x, U)
OrphanAll(b, U) ==
    [x \in {Orphan(r, U) : r \in BagToSet(b)} |-> SumInto(b, BagToSet(b), x, U)]

\* the card's place in the state machine of its view
CardState(c) ==
    IF c.loading THEN "loading"
    ELSE IF ~c.summary THEN "collapsed-unsummarized"
    ELSE IF c.expanded THEN "expanded-summarized"
    ELSE "collapsed-summarized"

\* what a card renders
CardView(i) ==
    LET c == cards[i] IN
    IF ~c.mounted THEN {}
    ELSE (IF ~Entry(mirror, i).read THEN {"dot"} ELSE {})
         \cup (IF ~c.summary /\ ~c.loading THEN {"preview"} ELSE {})
         \cup (IF c.loading THEN {"loading"} ELSE {})
         \cup (IF c.summary THEN {"summary"} ELSE {})
         \cup (IF c.summary /\ c.expanded THEN {"detail"} ELSE {})

\* (a reconcile that patches: known conversations keep their mirror entry)
loadConversationsOk_Patching(resp) ==
    /\ mirror' = SortDesc([k \in 1..Len(resp.convs) |->
                     IF resp.convs[k].id \in MirrorIds(mirror)
                     THEN Entry(mirror, resp.convs[k].id)
                     ELSE resp.convs[k]])
    /\ unreadCount' = resp.unread_count
    /\ panelLoading' = FALSE
    /\ cards' = RenderCards(cards, mirror', activeTab)

\* (a reconcile whose new list is shown before the new count is set)
loadConversationsOk_CountLater(resp) ==
    /\ mirror' = SortDesc(resp.convs)
    /\ UNCHANGED unreadCount
    /\ panelLoading' = FALSE
    /\ cards' = RenderCards(cards, mirror', activeTab)

\* (a reconcile that counts the unread conversations itself)
loadConversationsOk_Counting(resp) ==
    /\ mirror' = SortDesc(resp.convs)
    /\ unreadCount' = Cardinality({k \in 1..Len(resp.convs) : ~resp.convs[k].read})
    /\ panelLoading' = FALSE
    /\ cards' = RenderCards(cards, mirror', activeTab)

\* loadConversations, the response arrived
loadConversationsOk(resp) ==
    /\ mirror' = SortDesc(resp.convs)
    /\ unreadCount' = resp.unread_count   \* `|| 0` leaves an int as it is
    /\ panelLoading' = FALSE
    /\ cards' = RenderCards(cards, mirror', activeTab)

\* (a failed reconcile that empties the list)
loadConversationsFail_Clearing ==
    /\ panelLoading' = FALSE
    /\ mirror' = <<>>
    /\ cards' = RenderCards(cards, mirror', activeTab)
    /\ UNCHANGED unreadCount

\* loadConversations, the request failed: catch, console.error
loadConversationsFail ==
    /\ panelLoading' = FALSE
    /\ UNCHANGED <<mirror, unreadCount, cards>>

\* useEffect: loadConversations(); setInterval(loadConversations, 8000)
Mount ==
    /\ panelLife = "init"
    /\ UNCHANGED <<hostVars, bunnyVars, appVars, chatVars>>
    /\ panelLife' = "mounted"
    /\ interval' = TRUE
    /\ reqs' = SendFetch(reqs, "load")
    /\ ev' = Ev("mount", 0, "load")
    /\ UNCHANGED <<closeSent, activeTab, mirror, unreadCount, panelLoading, summarizingAll,
                   cards, storeVars, resolved, lastCount>>

\* the interval fires
TimerTick ==
    /\ interval
    /\ UNCHANGED <<hostVars, bunnyVars, appVars, chatVars>>
    /\ NumFetches < MaxFetches
    /\ reqs' = SendFetch(reqs, "load")
    /\ ev' = Ev("timerTick", 0, "load")
    /\ UNCHANGED <<panelLife, interval, closeSent, activeTab, mirror, unreadCount, panelLoading,
                   summarizingAll, cards, storeVars, resolved, lastCount>>

\* setActiveTab(t)
SetActiveTab(t) ==
    /\ panelLife = "mounted"
    /\ UNCHANGED <<hostVars, bunnyVars, appVars>>
    /\ t # activeTab
    /\ activeTab' = t
    /\ ChatViewLeft(activeTab)
    /\ cards' = RenderCards(cards, mirror, t)
    /\ reqs' = OrphanAll(reqs, Unmounted(cards, cards'))
    /\ ev' = NoEv
    /\ UNCHANGED <<panelLife, interval, closeSent, mirror, unreadCount, panelLoading, summarizingAll,
                   storeVars, resolved, lastCount>>

\* (a reconcile that drops a response once a later fetch has been applied)
FetchDelivered_NewestWins(r) ==
    /\ panelLife = "mounted"
    /\ UNCHANGED <<hostVars, bunnyVars, appVars, chatVars>>
    /\ r \in InFlight
    /\ r.op = "list" /\ r.st = "served"
    /\ IF r.late
       THEN loadConversationsFail
       ELSE loadConversationsOk(r.resp)
    /\ reqs' = OrphanAll(Overtake(reqs (-) One(r), r), Unmounted(cards, cards'))
    /\ summarizingAll' = (IF r.cont = "loadSA" THEN FALSE ELSE summarizingAll)
    /\ lastCount' = r.resp.unread_count
    /\ ev' = [Ev("fetchApplied", 0, r.cont) EXCEPT !.seen = r.seen, !.convs = r.resp.convs,
                                                  !.bulk = r.bulk, !.late = r.late]
    /\ UNCHANGED <<panelLife, interval, closeSent, activeTab, storeVars, resolved>>

\* a list response is delivered to loadConversations
FetchDelivered(r) ==
    /\ panelLife = "mounted"
    /\ UNCHANGED <<hostVars, bunnyVars, appVars, chatVars>>
    /\ r \in InFlight
    /\ r.op = "list" /\ r.st = "served"
    /\ loadConversationsOk(r.resp)
    /\ reqs' = OrphanAll(Overtake(reqs (-) One(r), r), Unmounted(cards, cards'))
    \* handleSummarizeAll: await loadConversations(); setSummarizingAll(false)
    /\ summarizingAll' = (IF r.cont = "loadSA" THEN FALSE ELSE summarizingAll)
    /\ lastCount' = r.resp.unread_count
    /\ ev' = [Ev("fetchApplied", 0, r.cont) EXCEPT !.seen = r.seen, !.convs = r.resp.convs,
                                                  !.bulk = r.bulk, !.late = r.late]
    /\ UNCHANGED <<panelLife, interval, closeSent, activeTab, storeVars, resolved>>

\* a list request fails (network error, timeout)
FetchFailed(r) ==
    /\ panelLife = "mounted"
    /\ UNCHANGED <<hostVars, bunnyVars, appVars, chatVars>>
    /\ r \in InFlight
    /\ r.op = "list"
    /\ loadConversationsFail
    /\ reqs' = reqs (-) One(r)
    /\ summarizingAll' = (IF r.cont = "loadSA" THEN FALSE ELSE summarizingAll)
    /\ ev' = Ev("fetchFailed", 0, r.cont)
    /\ UNCHANGED <<panelLife, interval, closeSent, activeTab, storeVars, resolved, lastCount>>

\* ---- ConversationCard
\* handleClick's state updates: handleSummarize's setLoading(true), or
\* setExpanded(!expanded)
handleClickCard(c) ==
    IF ~c.summary THEN [c EXCEPT !.loading = TRUE]
    ELSE [c EXCEPT !.expanded = ~c.expanded]

\* (a click that marks read only when it does not summarize)
handleClickRequests_ReadOnlyWhenSummarized(c, conversation) ==
    IF ~c.summary THEN One(Req("summarize", conversation.id, "hs"))
    ELSE IF ~conversation.read
         THEN One(Req("markRead", conversation.id, "click")) (+) One(Req("list", 0, "load"))
         ELSE EmptyBag

\* the requests handleClick sends for card c showing `conversation`:
\* handleSummarize's summarizeConversation when there is no summary, and
\* markConversationRead (not awaited) with onRead() when it is unread
handleClickRequests(c, conversation) ==
    (IF ~c.summary
     THEN One([Req("summarize", conversation.id, "hs") EXCEPT !.twice = ~conversation.read])
     ELSE EmptyBag)
    (+) (IF ~conversation.read
         THEN One(Req("markRead", conversation.id, "click")) (+) One(Req("list", 0, "load"))
         ELSE EmptyBag)

\* the user clicks card i
Click(i) ==
    /\ panelLife = "mounted"
    /\ UNCHANGED <<hostVars, bunnyVars, appVars, chatVars>>
    /\ cards[i].mounted
    /\ LET c == cards[i]
           conversation == Entry(mirror, i)
           new == handleClickRequests(c, conversation)
       IN /\ NumFetches + (IF ~conversation.read THEN 1 ELSE 0) <= MaxFetches
          /\ NumCalls + (IF ~c.summary THEN 1 ELSE 0)
                      + (IF ~conversation.read THEN 1 ELSE 0) <= MaxCalls
          /\ ~c.summary => NumSummarize(i) < lim.summarize
          /\ cards' = [cards EXCEPT ![i] = handleClickCard(c)]
          /\ reqs' = (IF ~conversation.read THEN AllOlder(reqs) ELSE reqs) (+) new
          /\ ev' = [Ev("click", i, "none") EXCEPT !.unread = ~conversation.read, !.card = c]
    /\ UNCHANGED <<panelLife, interval, closeSent, activeTab, mirror, unreadCount, panelLoading,
                   summarizingAll, storeVars, resolved, lastCount>>

\* state setters of a card that may have been unmounted meanwhile
SetCard(r, c) == IF r.cont = "hs" THEN [cards EXCEPT ![r.id] = c] ELSE cards

\* handleSummarize after summarizeConversation resolved: setSummary(result),
\* then await markConversationRead
handleSummarizeGotSummary(c) == [c EXCEPT !.summary = TRUE]

\* (setLoading(false) reached on success only)
handleSummarizeFailed_StillLoading(c) == c

\* handleSummarize after a failure: catch, console.error, setLoading(false)
handleSummarizeFailed(c) == [c EXCEPT !.loading = FALSE]

\* handleSummarize after markConversationRead resolved: onRead(), setLoading(false)
handleSummarizeDone(c) == [c EXCEPT !.loading = FALSE]

IsTask(r) == r.cont \in {"hs", "hsx"}

SummarizeDelivered(r) ==
    /\ panelLife = "mounted"
    /\ UNCHANGED <<hostVars, bunnyVars, appVars, chatVars>>
    /\ r \in InFlight
    /\ r.op = "summarize" /\ r.st = "served" /\ IsTask(r)
    /\ cards' = SetCard(r, handleSummarizeGotSummary(cards[r.id]))
    /\ reqs' = (reqs (-) One(r))
                 (+) One([Req("markRead", r.id, r.cont) EXCEPT !.twice = r.twice])
    /\ ev' = Ev("summarizeDelivered", r.id, r.cont)
    /\ UNCHANGED <<panelLife, interval, closeSent, activeTab, mirror, unreadCount, panelLoading,
                   summarizingAll, storeVars, resolved, lastCount>>

SummarizeFailed(r) ==
    /\ panelLife = "mounted"
    /\ UNCHANGED <<hostVars, bunnyVars, appVars, chatVars>>
    /\ r \in InFlight
    /\ r.op = "summarize" /\ IsTask(r)
    /\ cards' = SetCard(r, handleSummarizeFailed(cards[r.id]))
    /\ reqs' = reqs (-) One(r)
    /\ ev' = [Ev("summarizeFailed", r.id, r.cont) EXCEPT !.card = cards[r.id]]
    /\ UNCHANGED <<panelLife, interval, closeSent, activeTab, mirror, unreadCount, panelLoading,
                   summarizingAll, storeVars, resolved, lastCount>>

\* the markConversationRead awaited by handleSummarize resolves
TaskMarkReadDelivered(r) ==
    /\ panelLife = "mounted"
    /\ UNCHANGED <<hostVars, bunnyVars, appVars, chatVars>>
    /\ r \in InFlight
    /\ r.op = "markRead" /\ r.st = "served" /\ IsTask(r)
    /\ NumFetches < MaxFetches
    /\ resolved' = (IF lim.hist THEN resolved \cup {r.id} ELSE resolved)
    /\ cards' = SetCard(r, handleSummarizeDone(cards[r.id]))
    /\ reqs' = AllOlder(reqs (-) One(r))
                 (+) One([Req("list", 0, "load") EXCEPT !.twice = r.twice])
    /\ ev' = NoEv
    /\ UNCHANGED <<panelLife, interval, closeSent, activeTab, mirror, unreadCount, panelLoading,
                   summarizingAll, storeVars, lastCount>>

TaskMarkReadFailed(r) ==
    /\ panelLife = "mounted"
    /\ UNCHANGED <<hostVars, bunnyVars, appVars, chatVars>>
    /\ r \in InFlight
    /\ r.op = "markRead" /\ IsTask(r)
    /\ cards' = SetCard(r, handleSummarizeFailed(cards[r.id]))
    /\ reqs' = reqs (-) One(r)
    /\ ev' = NoEv
    /\ UNCHANGED <<panelLife, interval, closeSent, activeTab, mirror, unreadCount, panelLoading,
                   summarizingAll, storeVars, resolved, lastCount>>

\* handleClick's markConversationRead resolves: nothing awaits it
ClickMarkReadDelivered(r) ==
    /\ panelLife = "mounted"
    /\ UNCHANGED <<hostVars, bunnyVars, appVars, chatVars>>
    /\ r \in InFlight
    /\ r.op = "markRead" /\ r.st = "served" /\ r.cont = "click"
    /\ resolved' = (IF lim.hist THEN resolved \cup {r.id} ELSE resolved)
    /\ reqs' = reqs (-) One(r)
    /\ ev' = NoEv
    /\ UNCHANGED <<panelLife, interval, closeSent, activeTab, mirror, unreadCount, panelLoading,
                   summarizingAll, cards, storeVars, lastCount>>

\* handleClick's markConversationRead rejects: no handler is attached
ClickMarkReadFailed(r) ==
    /\ panelLife = "mounted"
    /\ UNCHANGED <<hostVars, bunnyVars, appVars, chatVars>>
    /\ r \in InFlight
    /\ r.op = "markRead" /\ r.cont = "click"
    /\ reqs' = reqs (-) One(r)
    /\ ev' = Ev("unhandledRejection", r.id, r.cont)
    /\ UNCHANGED <<panelLife, interval, closeSent, activeTab, mirror, unreadCount, panelLoading,
                   summarizingAll, cards, storeVars, resolved, lastCount>>

\* ---- the panel's buttons
\* handleMarkAllRead: the button is disabled when unreadCount === 0
MarkAllReadClick ==
    /\ panelLife = "mounted"
    /\ UNCHANGED <<hostVars, bunnyVars, appVars, chatVars>>
    /\ activeTab = "messages"
    /\ unreadCount # 0
    /\ NumCalls < MaxCalls
    /\ reqs' = reqs (+) One(Req("markAll", 0, "hmar"))
    /\ ev' = NoEv
    /\ UNCHANGED <<panelLife, interval, closeSent, activeTab, mirror, unreadCount, panelLoading,
                   summarizingAll, cards, storeVars, resolved, lastCount>>

\* (a handleMarkAllRead that also marks the mirror's entries read itself)
MarkAllDelivered_Optimistic(r) ==
    /\ panelLife = "mounted"
    /\ UNCHANGED <<hostVars, bunnyVars, appVars, chatVars>>
    /\ r \in InFlight
    /\ r.op = "markAll" /\ r.st = "served"
    /\ NumFetches < MaxFetches
    /\ mirror' = [k \in 1..Len(mirror) |-> [mirror[k] EXCEPT !.read = TRUE]]
    /\ reqs' = SendFetch(reqs (-) One(r), "load")
    /\ ev' = NoEv
    /\ UNCHANGED <<panelLife, interval, closeSent, activeTab, unreadCount, panelLoading,
                   summarizingAll, cards, storeVars, resolved, lastCount>>

\* await markAllRead() returned: loadConversations()
MarkAllDelivered(r) ==
    /\ panelLife = "mounted"
    /\ UNCHANGED <<hostVars, bunnyVars, appVars, chatVars>>
    /\ r \in InFlight
    /\ r.op = "markAll" /\ r.st = "served"
    /\ NumFetches < MaxFetches
    /\ reqs' = SendFetch(reqs (-) One(r), "load")
    /\ ev' = NoEv
    /\ UNCHANGED <<panelLife, interval, closeSent, activeTab, mirror, unreadCount, panelLoading,
                   summarizingAll, cards, storeVars, resolved, lastCount>>

\* await markAllRead() threw: handleMarkAllRead has no try
MarkAllFailed(r) ==
    /\ panelLife = "mounted"
    /\ UNCHANGED <<hostVars, bunnyVars, appVars, chatVars>>
    /\ r \in InFlight
    /\ r.op = "markAll"
    /\ reqs' = reqs (-) One(r)
    /\ ev' = Ev("unhandledRejection", 0, r.cont)
    /\ UNCHANGED <<panelLife, interval, closeSent, activeTab, mirror, unreadCount, panelLoading,
                   summarizingAll, cards, storeVars, resolved, lastCount>>

\* (a Summarize All button that is never disabled by the flag)
SummarizeAllClick_Unguarded ==
    /\ panelLife = "mounted"
    /\ UNCHANGED <<hostVars, bunnyVars, appVars, chatVars>>
    /\ activeTab = "messages"
    /\ Len(mirror) # 0
    /\ NumCalls < MaxCalls
    /\ summarizingAll' = TRUE
    /\ reqs' = reqs (+) One(Req("summarizeAll", 0, "hsa"))
    /\ ev' = NoEv
    /\ UNCHANGED <<panelLife, interval, closeSent, activeTab, mirror, unreadCount, panelLoading,
                   cards, storeVars, resolved, lastCount>>

\* handleSummarizeAll: disabled={summarizingAll || conversations.length === 0}
SummarizeAllClick ==
    /\ panelLife = "mounted"
    /\ UNCHANGED <<hostVars, bunnyVars, appVars, chatVars>>
    /\ activeTab = "messages"
    /\ ~summarizingAll
    /\ Len(mirror) # 0
    /\ NumCalls < MaxCalls
    /\ summarizingAll' = TRUE
    /\ reqs' = reqs (+) One(Req("summarizeAll", 0, "hsa"))
    /\ ev' = NoEv
    /\ UNCHANGED <<panelLife, interval, closeSent, activeTab, mirror, unreadCount, panelLoading,
                   cards, storeVars, resolved, lastCount>>

\* (a handleSummarizeAll that clears the flag without a reconcile)
SummarizeAllDelivered_NoReconcile(r) ==
    /\ panelLife = "mounted"
    /\ UNCHANGED <<hostVars, bunnyVars, appVars, chatVars>>
    /\ r \in InFlight
    /\ r.op = "summarizeAll" /\ r.st = "served"
    /\ reqs' = reqs (-) One(r)
    /\ summarizingAll' = FALSE
    /\ ev' = Ev("summarizeAllResolved", 0, r.cont)
    /\ UNCHANGED <<panelLife, interval, closeSent, activeTab, mirror, unreadCount, panelLoading,
                   cards, storeVars, resolved, lastCount>>

\* await summarizeAll() returned: await loadConversations()
SummarizeAllDelivered(r) ==
    /\ panelLife = "mounted"
    /\ UNCHANGED <<hostVars, bunnyVars, appVars, chatVars>>
    /\ r \in InFlight
    /\ r.op = "summarizeAll" /\ r.st = "served"
    /\ NumFetches < MaxFetches
    /\ reqs' = AllOlder(reqs (-) One(r))
                   (+) One([Req("list", 0, "loadSA") EXCEPT !.bulk = r.bulk])
    /\ ev' = Ev("summarizeAllResolved", 0, r.cont)
    /\ UNCHANGED <<panelLife, interval, closeSent, activeTab, mirror, unreadCount, panelLoading,
                   summarizingAll, cards, storeVars, resolved, lastCount>>

\* await summarizeAll() threw: catch, setSummarizingAll(false)
SummarizeAllFailed(r) ==
    /\ panelLife = "mounted"
    /\ UNCHANGED <<hostVars, bunnyVars, appVars, chatVars>>
    /\ r \in InFlight
    /\ r.op = "summarizeAll"
    /\ summarizingAll' = FALSE
    /\ reqs' = reqs (-) One(r)
    /\ ev' = Ev("summarizeAllFailed", 0, r.cont)
    /\ UNCHANGED <<panelLife, interval, closeSent, activeTab, mirror, unreadCount, panelLoading,
                   cards, storeVars, resolved, lastCount>>

\* SummaryPanel's useState initial values, with no card and no request
PanelInitUi ==
    /\ activeTab = "messages"
    /\ mirror = <<>>
    /\ unreadCount = 0
    /\ panelLoading = TRUE
    /\ summarizingAll = FALSE
    /\ cards = [i \in ConvIds |-> NoCard]
    /\ reqs = EmptyBag
    /\ interval = FALSE
    /\ closeSent = 0
    /\ resolved = {}
    /\ lastCount = 0
    /\ ev = NoEv

\* (a teardown that leaves the interval running)
PanelClose_KeepInterval ==
    /\ panelLife = "mounted"
    /\ UNCHANGED <<hostVars, bunnyVars, appVars>>
    /\ ChatViewGone
    /\ panelLife' = "closed"
    /\ activeTab' = "messages"
    /\ mirror' = <<>>
    /\ unreadCount' = 0
    /\ panelLoading' = TRUE
    /\ summarizingAll' = FALSE
    /\ cards' = [i \in ConvIds |-> NoCard]
    /\ reqs' = EmptyBag
    /\ resolved' = {}
    /\ lastCount' = 0
    /\ ev' = NoEv
    /\ UNCHANGED <<interval, closeSent, storeVars>>

\* the panel window is destroyed (handleClose's closeSummary, or any other
\* close): the effect's cleanup clears the interval and the renderer process
\* ends with its state and with every request it had in flight
PanelClose ==
    /\ panelLife = "mounted"
    /\ UNCHANGED <<hostVars, bunnyVars, appVars>>
    /\ ChatViewGone
    /\ panelLife' = "closed"
    /\ interval' = FALSE   \* return () => clearInterval(interval)
    /\ UNCHANGED closeSent
    /\ activeTab' = "messages"
    /\ mirror' = <<>>
    /\ unreadCount' = 0
    /\ panelLoading' = TRUE
    /\ summarizingAll' = FALSE
    /\ cards' = [i \in ConvIds |-> NoCard]
    /\ reqs' = EmptyBag
    /\ resolved' = {}
    /\ lastCount' = 0
    /\ ev' = NoEv
    /\ UNCHANGED storeVars

\* bound: 'close-summary' messages the panel sends
MaxCloseSent == 2
\* handleClose of the panel's close button: closeSummary() through the
\* bridge when the bridge exists, nothing otherwise
HandleClose ==
    /\ panelLife = "mounted"
    /\ UNCHANGED <<hostVars, bunnyVars, appVars, chatVars>>
    /\ IF bridge
       THEN closeSent < MaxCloseSent /\ closeSent' = closeSent + 1
       ELSE UNCHANGED closeSent
    /\ ev' = Ev("handleClose", 0, "none")
    /\ UNCHANGED <<panelLife, interval, activeTab, mirror, unreadCount, panelLoading,
                   summarizingAll, cards, reqs, storeVars, resolved, lastCount>>

PanelInit(limits, maxActivity) ==
    /\ lim = limits
    /\ panelLife = "init"
    /\ PanelInitUi
    /\ nconv = 0
    /\ activity \in [ConvIds -> 1..maxActivity]
    /\ storeRead = {}
    /\ storeSumm = {}

PanelNext ==
    \/ Mount
    \/ TimerTick
    \/ \E t \in Tabs : SetActiveTab(t)
    \/ \E i \in ConvIds : Click(i)
    \/ MarkAllReadClick
    \/ SummarizeAllClick
    \/ PanelClose
    \/ StoreInbound
    \/ \E r \in InFlight : Serve(r)
    \/ \E r \in InFlight : FetchDelivered(r)
    \/ \E r \in InFlight : FetchFailed(r)
    \/ \E r \in InFlight : SummarizeDelivered(r)
    \/ \E r \in InFlight : SummarizeFailed(r)
    \/ \E r \in InFlight : TaskMarkReadDelivered(r)
    \/ \E r \in InFlight : TaskMarkReadFailed(r)
    \/ \E r \in InFlight : ClickMarkReadDelivered(r)
    \/ \E r \in InFlight : ClickMarkReadFailed(r)
    \/ \E r \in InFlight : MarkAllDelivered(r)
    \/ \E r \in InFlight : MarkAllFailed(r)
    \/ \E r \in InFlight : SummarizeAllDelivered(r)
    \/ \E r \in InFlight : SummarizeAllFailed(r)

\* ------------------------------------------------------- the companion
\* bounds of the companion model
MaxPollCount == 2       \* unread_count values 0..MaxPollCount
MaxPolls == 2           \* fetchUnreadCount calls in flight
MaxBounceTimers == 2    \* pending bounce timeouts
MaxToggleSent == 2      \* 'toggle-summary' messages sent

\* ---- history of the step BunnyPet took last
\* op: the step; count: the counter a poll observed; before: unreadCount and
\* mood as the step found them; bounce: the step called setBouncing(true)
NoBunnyEv == [op |-> "none", count |-> 0, before |-> [unreadCount |-> 0, mood |-> "idle"],
              bounce |-> FALSE]
BunnyEv(op, count, bounce) ==
    [op |-> op, count |-> count,
     before |-> [unreadCount |-> bunnyUnreadCount, mood |-> mood], bounce |-> bounce]

\* pollUnread, fetchUnreadCount resolved with `count`
pollUnreadOk(count) ==
    /\ bunnyUnreadCount' = count
    /\ IF count > 0
       THEN /\ mood' = "excited"
            /\ bouncing' = TRUE
            /\ bounceTimers' = bounceTimers + 1
       ELSE /\ mood' = "idle"
            /\ UNCHANGED <<bouncing, bounceTimers>>

\* pollUnread, fetchUnreadCount rejected: catch { setMood('idle') }
pollUnreadFail ==
    /\ mood' = "idle"
    /\ UNCHANGED <<bunnyUnreadCount, bouncing, bounceTimers>>

\* useEffect: pollUnread(); setInterval(pollUnread, 5000)
BunnyMount ==
    /\ bunnyLife = "init"
    /\ UNCHANGED <<hostVars, panelVars, appVars, chatVars>>
    /\ bunnyLife' = "mounted"
    /\ pollInterval' = TRUE
    /\ polls' = polls + 1
    /\ bev' = NoBunnyEv
    /\ UNCHANGED <<bridge, bunnyUnreadCount, mood, bouncing, bounceTimers, toggleSent>>

\* the polling interval fires
PollTick ==
    /\ pollInterval
    /\ UNCHANGED <<hostVars, panelVars, appVars, chatVars>>
    /\ polls < MaxPolls
    /\ polls' = polls + 1
    /\ bev' = NoBunnyEv
    /\ UNCHANGED <<bunnyLife, pollInterval, bridge, bunnyUnreadCount, mood, bouncing, bounceTimers,
                   toggleSent>>

\* GET /pet/conversations/unread/count answers `count`
PollDelivered(count) ==
    /\ bunnyLife = "mounted"
    /\ UNCHANGED <<hostVars, panelVars, appVars, chatVars>>
    /\ polls > 0
    /\ count > 0 => bounceTimers < MaxBounceTimers
    /\ pollUnreadOk(count)
    /\ polls' = polls - 1
    /\ bev' = BunnyEv("pollOk", count, count > 0)
    /\ UNCHANGED <<bunnyLife, pollInterval, bridge, toggleSent>>

\* the request fails (network error, timeout)
PollFailed ==
    /\ bunnyLife = "mounted"
    /\ UNCHANGED <<hostVars, panelVars, appVars, chatVars>>
    /\ polls > 0
    /\ pollUnreadFail
    /\ polls' = polls - 1
    /\ bev' = BunnyEv("pollFailed", 0, FALSE)
    /\ UNCHANGED <<bunnyLife, pollInterval, bridge, toggleSent>>

\* a bounce timeout fires: setBouncing(false)
BounceTimeout ==
    /\ bunnyLife = "mounted"
    /\ UNCHANGED <<hostVars, panelVars, appVars, chatVars>>
    /\ bounceTimers > 0
    /\ bouncing' = FALSE
    /\ bounceTimers' = bounceTimers - 1
    /\ bev' = BunnyEv("timeout", 0, FALSE)
    /\ UNCHANGED <<bunnyLife, pollInterval, bridge, bunnyUnreadCount, mood, polls, toggleSent>>

\* (a handler that calls the bridge without testing it: with no bridge the
\* call throws a TypeError and the rest of the handler does not run)
BunnyClick_Unguarded ==
    /\ bunnyLife = "mounted"
    /\ UNCHANGED <<hostVars, panelVars, appVars, chatVars>>
    /\ bounceTimers < MaxBounceTimers
    /\ IF bridge
       THEN /\ toggleSent < MaxToggleSent /\ toggleSent' = toggleSent + 1
            /\ bouncing' = TRUE
            /\ bounceTimers' = bounceTimers + 1
            /\ bev' = BunnyEv("click", 0, TRUE)
       ELSE /\ bev' = BunnyEv("typeError", 0, FALSE)
            /\ UNCHANGED <<toggleSent, bouncing, bounceTimers>>
    /\ UNCHANGED <<bunnyLife, pollInterval, bridge, bunnyUnreadCount, mood, polls>>
\* handleClick of the companion: toggleSummary() through the bridge when the
\* bridge exists; then the bounce and its 600 ms timeout
BunnyClick ==
    /\ bunnyLife = "mounted"
    /\ UNCHANGED <<hostVars, panelVars, appVars, chatVars>>
    /\ bounceTimers < MaxBounceTimers
    /\ IF bridge
       THEN toggleSent < MaxToggleSent /\ toggleSent' = toggleSent + 1
       ELSE UNCHANGED toggleSent
    /\ bouncing' = TRUE
    /\ bounceTimers' = bounceTimers + 1
    /\ bev' = BunnyEv("click", 0, TRUE)
    /\ UNCHANGED <<bunnyLife, pollInterval, bridge, bunnyUnreadCount, mood, polls>>

\* BunnyPet's useState initial values
BunnyInitUi ==
    /\ pollInterval = FALSE
    /\ bunnyUnreadCount = 0
    /\ mood = "idle"
    /\ bouncing = FALSE
    /\ bounceTimers = 0
    /\ polls = 0
    /\ toggleSent = 0
    /\ bev = NoBunnyEv

\* the companion window is destroyed: its renderer process ends with its
\* state, its timers and the polls it had in flight
BunnyClose ==
    /\ bunnyLife = "mounted"
    /\ UNCHANGED <<hostVars, panelVars, appVars, chatVars>>
    /\ bunnyLife' = "closed"
    /\ pollInterval' = FALSE   \* return () => clearInterval(interval)
    /\ bunnyUnreadCount' = 0
    /\ mood' = "idle"
    /\ bouncing' = FALSE
    /\ bounceTimers' = 0
    /\ polls' = 0
    /\ bev' = NoBunnyEv
    /\ UNCHANGED <<bridge, toggleSent>>

BunnyInit ==
    /\ bunnyLife = "init"
    /\ bridge \in BOOLEAN
    /\ BunnyInitUi

BunnyNext ==
    \/ BunnyMount
    \/ PollTick
    \/ \E count \in 0..MaxPollCount : PollDelivered(count)
    \/ PollFailed
    \/ BounceTimeout
    \/ BunnyClick
    \/ BunnyClose

\* ------------------------------------------------------------ the App
\* bound of the App model: window.location.hash has at most MaxHashLen pieces
MaxHashLen == 4
\* a string is a sequence of pieces, each a run of characters
RECURSIVE StringsUpTo(_)
StringsUpTo(n) ==
    IF n = 0 THEN {<<>>}
    ELSE LET S == StringsUpTo(n - 1)
         IN S \cup {Append(t, p) : t \in S, p \in {"#", "summary", "pet", "x"}}
\* location.hash is empty or starts with '#'
Hashes == {h \in StringsUpTo(MaxHashLen) : h = <<>> \/ h[1] = "#"}

\* (a replace that removes every '#')
replaceFirst_All(str, piece) == SelectSeq(str, LAMBDA p : p # piece)
\* String.prototype.replace(piece, ''): removes the first occurrence
RECURSIVE replaceFirst(_, _)
replaceFirst(str, piece) ==
    IF str = <<>> THEN <<>>
    ELSE IF Head(str) = piece THEN Tail(str)
    ELSE <<Head(str)>> \o replaceFirst(Tail(str), piece)

\* the view App's effect sets for location.hash = h
resolveView(h) ==
    IF replaceFirst(h, "#") = <<"summary">> THEN "summary" ELSE "pet"

\* useEffect(() => {...}, []): runs once after the first render
AppEffect ==
    /\ appLife = "rendered"
    /\ UNCHANGED <<hostVars, panelVars, bunnyVars, chatVars>>
    /\ view' = resolveView(hash)
    /\ appLife' = "resolved"
    /\ UNCHANGED hash

\* the user or a script changes location.hash: App has no listener for it
HashChange(h) ==
    /\ UNCHANGED <<hostVars, panelVars, bunnyVars, chatVars>>
    /\ h # hash
    /\ hash' = h
    /\ UNCHANGED <<view, appLife>>

AppInit ==
    /\ hash \in Hashes
    /\ view = "pet"
    /\ appLife = "rendered"

AppNext ==
    \/ AppEffect
    \/ \E h \in Hashes : HashChange(h)

ChatNext ==
    \/ \E str \in Inputs : ChatType(str)
    \/ ChatSend
    \/ \E k \in 1..Len(chatReqs) : ChatReply(k)
    \/ \E k \in 1..Len(chatReqs) : ChatFail(k)
    \/ ChatClear
    \/ Mount
    \/ \E t \in Tabs : SetActiveTab(t)
    \/ PanelClose

\* ----------------------------------------------------------- the desktop
\* Every window has a renderer process of its own, which runs App on the
\* window's hash; it ends when the window is destroyed. The commands a
\* renderer sends through the bridge are handled by the host in steps of
\* their own (IpcOpenSummary, IpcCloseSummary, IpcToggleSummary).
SetUi(w, ui) == [wins EXCEPT ![w].ui = ui]
Running(w) == w \in WindowIds /\ wins[w].st # "destroyed"
Shows(w, v) == Running(w) /\ wins[w].ui.life = "mounted" /\ wins[w].ui.view = v
Without(seq, k) == SubSeq(seq, 1, k - 1) \o SubSeq(seq, k + 1, Len(seq))

\* the page of window w runs: App renders with useState('pet'), so BunnyPet
\* mounts in every window; the effects pass sends BunnyPet's first poll, sets
\* its interval and runs App's effect, whose setView schedules another
\* render when the hash resolves to a view other than 'pet'
RendererMount(w) ==
    /\ Running(w) /\ wins[w].ui.life = "loading"
    /\ wins' = SetUi(w, [Renderer(IF resolveView(wins[w].hash) = "pet"
                                  THEN "mounted" ELSE "first") EXCEPT
                            !.view = "pet",
                            !.interval = TRUE,
                            !.polls = 1])
    /\ UNCHANGED <<phase, platform, workArea, petWindow, summaryWindow, hev>>
    /\ UNCHANGED <<panelVars, bunnyVars, appVars, chatVars>>

\* the render scheduled by setView('summary') runs, in the scheduler pass of
\* the first one and so before any timer, response or click of this
\* renderer: BunnyPet unmounts (its cleanup clears the interval; its polls in
\* flight and its timeouts stay), SummaryPanel mounts, sends its first fetch
\* and sets its interval
AppRerender(w) ==
    /\ Running(w) /\ wins[w].ui.life = "first"
    /\ wins' = SetUi(w, [Renderer("mounted") EXCEPT
                            !.view = resolveView(wins[w].hash),
                            !.interval = TRUE,
                            !.stray = wins[w].ui.polls,
                            !.timeouts = wins[w].ui.timeouts,
                            !.fetches = <<nconv>>])
    /\ UNCHANGED <<phase, platform, workArea, petWindow, summaryWindow, hev>>
    /\ UNCHANGED <<panelVars, bunnyVars, appVars, chatVars>>

\* setInterval(loadConversations, 8000) of the SummaryPanel in window w fires
DeskTimerTick(w) ==
    /\ Shows(w, "summary") /\ wins[w].ui.interval
    /\ Len(wins[w].ui.fetches) < DeskFetches
    /\ wins' = SetUi(w, [wins[w].ui EXCEPT !.fetches = Append(@, nconv)])
    /\ UNCHANGED <<phase, platform, workArea, petWindow, summaryWindow, hev>>
    /\ UNCHANGED <<panelVars, bunnyVars, appVars, chatVars>>

\* loadConversations of the SummaryPanel in window w, its k-th fetch resolved
\* with `resp`, which the store computed at some moment since the fetch was
\* sent
DeskFetchDelivered(w, k, resp) ==
    /\ Shows(w, "summary")
    /\ k \in 1..Len(wins[w].ui.fetches)
    /\ \E n \in wins[w].ui.fetches[k]..nconv : resp \in ListResponsesOf(n)
    /\ wins' = SetUi(w, [wins[w].ui EXCEPT !.conversations = SortDesc(resp.convs),
                                          !.unreadCount = resp.unread_count,
                                          !.fetches = Without(@, k)])
    /\ UNCHANGED <<phase, platform, workArea, petWindow, summaryWindow, hev>>
    /\ UNCHANGED <<panelVars, bunnyVars, appVars, chatVars>>

\* loadConversations of the SummaryPanel in window w, its k-th fetch
\* rejected: catch { console.error(...) }
DeskFetchFailed(w, k) ==
    /\ Shows(w, "summary")
    /\ k \in 1..Len(wins[w].ui.fetches)
    /\ wins' = SetUi(w, [wins[w].ui EXCEPT !.fetches = Without(@, k)])
    /\ UNCHANGED <<phase, platform, workArea, petWindow, summaryWindow, hev>>
    /\ UNCHANGED <<panelVars, bunnyVars, appVars, chatVars>>

\* (a badge poll that pauses while the host holds a panel window)
DeskPollTick_PausedByPanel(w) ==
    /\ Shows(w, "pet") /\ wins[w].ui.interval
    /\ summaryWindow = Null
    /\ wins[w].ui.polls < DeskPolls
    /\ wins' = SetUi(w, [wins[w].ui EXCEPT !.polls = @ + 1])
    /\ UNCHANGED <<phase, platform, workArea, petWindow, summaryWindow, hev>>
    /\ UNCHANGED <<panelVars, bunnyVars, appVars, chatVars>>
\* setInterval(pollUnread, 5000) of the BunnyPet in window w fires
DeskPollTick(w) ==
    /\ Shows(w, "pet") /\ wins[w].ui.interval
    /\ wins[w].ui.polls < DeskPolls
    /\ wins' = SetUi(w, [wins[w].ui EXCEPT !.polls = @ + 1])
    /\ UNCHANGED <<phase, platform, workArea, petWindow, summaryWindow, hev>>
    /\ UNCHANGED <<panelVars, bunnyVars, appVars, chatVars>>

\* pollUnread of the BunnyPet in window w, fetchUnreadCount resolved with
\* `count`
DeskPollDelivered(w, count) ==
    /\ Shows(w, "pet")
    /\ wins[w].ui.polls > 0
    /\ count > 0 => wins[w].ui.timeouts < DeskTimeouts
    /\ wins' = SetUi(w, [wins[w].ui EXCEPT
                            !.unreadCount = count,
                            !.mood = IF count > 0 THEN "excited" ELSE "idle",
                            !.bouncing = IF count > 0 THEN TRUE ELSE @,
                            !.timeouts = IF count > 0 THEN @ + 1 ELSE @,
                            !.polls = @ - 1])
    /\ UNCHANGED <<phase, platform, workArea, petWindow, summaryWindow, hev>>
    /\ UNCHANGED <<panelVars, bunnyVars, appVars, chatVars>>

\* pollUnread of the BunnyPet in window w, fetchUnreadCount rejected
DeskPollFailed(w) ==
    /\ Shows(w, "pet")
    /\ wins[w].ui.polls > 0
    /\ wins' = SetUi(w, [wins[w].ui EXCEPT !.mood = "idle", !.polls = @ - 1])
    /\ UNCHANGED <<phase, platform, workArea, petWindow, summaryWindow, hev>>
    /\ UNCHANGED <<panelVars, bunnyVars, appVars, chatVars>>

\* pollUnread of the BunnyPet that window w has unmounted, fetchUnreadCount
\* resolved with `count`: the state setters are without effect, the
\* setTimeout of a positive count is created all the same
DeskStrayDelivered(w, count) ==
    /\ Shows(w, "summary")
    /\ wins[w].ui.stray > 0
    /\ count > 0 => wins[w].ui.timeouts < DeskTimeouts
    /\ wins' = SetUi(w, [wins[w].ui EXCEPT
                            !.timeouts = IF count > 0 THEN @ + 1 ELSE @,
                            !.stray = @ - 1])
    /\ UNCHANGED <<phase, platform, workArea, petWindow, summaryWindow, hev>>
    /\ UNCHANGED <<panelVars, bunnyVars, appVars, chatVars>>

\* pollUnread of the BunnyPet that window w has unmounted, fetchUnreadCount
\* rejected
DeskStrayFailed(w) ==
    /\ Shows(w, "summary")
    /\ wins[w].ui.stray > 0
    /\ wins' = SetUi(w, [wins[w].ui EXCEPT !.stray = @ - 1])
    /\ UNCHANGED <<phase, platform, workArea, petWindow, summaryWindow, hev>>
    /\ UNCHANGED <<panelVars, bunnyVars, appVars, chatVars>>

\* handleClick of the BunnyPet in window w: toggleSummary() through the
\* bridge, then the bounce and its 600 ms timeout
DeskBunnyClick(w) ==
    /\ Shows(w, "pet")
    /\ wins[w].ui.timeouts < DeskTimeouts
    /\ wins' = SetUi(w, [wins[w].ui EXCEPT !.bouncing = TRUE, !.timeouts = @ + 1])
    /\ UNCHANGED <<phase, platform, workArea, petWindow, summaryWindow, hev>>
    /\ UNCHANGED <<panelVars, bunnyVars, appVars, chatVars>>

\* a bounce timeout of window w fires: setBouncing(false), without effect
\* once BunnyPet is unmounted
DeskBounceTimeout(w) ==
    /\ Running(w) /\ wins[w].ui.life = "mounted"
    /\ wins[w].ui.timeouts > 0
    /\ wins' = SetUi(w, [wins[w].ui EXCEPT !.bouncing = FALSE, !.timeouts = @ - 1])
    /\ UNCHANGED <<phase, platform, workArea, petWindow, summaryWindow, hev>>
    /\ UNCHANGED <<panelVars, bunnyVars, appVars, chatVars>>

\* the list responses explored on the desktop: the store counts as unread
\* what it lists (nothing is marked read here)
DeskResponses(n) ==
    {r \in ListResponsesOf(n) :
        r.unread_count = IF n > MaxUnreadCount THEN MaxUnreadCount ELSE n}

\* the display starts at the smallest work area and grows
InitDesk ==
    /\ HostInit /\ platform = "darwin" /\ workArea = Display(1, 1)
    /\ PanelInit(DeskLimits, 1)
    /\ BunnyInit /\ bridge
    /\ AppInit /\ hash = <<>>
    /\ ChatInit
DeskNext ==
    \/ WhenReady
    \/ IpcOpenSummary
    \/ IpcCloseSummary
    \/ IpcToggleSummary
    \/ Activate
    \/ \E w \in WindowIds : UserClose(w)
    \/ \E w \in WindowIds : WindowClosed(w)
    \/ \E d \in {x \in Displays : x.width > workArea.width} : DisplayChanged(d)
    \/ StoreInbound
    \/ \E w \in WindowIds : RendererMount(w)
    \/ \E w \in WindowIds : AppRerender(w)
    \/ \E w \in WindowIds : DeskTimerTick(w)
    \/ \E w \in WindowIds : \E k \in 1..DeskFetches : \E n \in 0..DeskConvs :
          \E resp \in DeskResponses(n) : DeskFetchDelivered(w, k, resp)
    \/ \E w \in WindowIds : \E k \in 1..DeskFetches : DeskFetchFailed(w, k)
    \/ \E w \in WindowIds : DeskPollTick(w)
    \/ \E w \in WindowIds : \E count \in 0..DeskPollCount : DeskPollDelivered(w, count)
    \/ \E w \in WindowIds : DeskPollFailed(w)
    \/ \E w \in WindowIds : \E count \in 0..DeskPollCount : DeskStrayDelivered(w, count)
    \/ \E w \in WindowIds : DeskStrayFailed(w)
    \/ \E w \in WindowIds : DeskBunnyClick(w)
    \/ \E w \in WindowIds : DeskBounceTimeout(w)
SpecDesk == InitDesk /\ [][DeskNext]_vars

\* ------------------------------------------------------- specifications
\* the chat view against the chat endpoint
InitChat ==
    /\ HostInit /\ platform = "darwin" /\ workArea = Display(1, 1)
    /\ PanelInit(CardLimits, 1)
    /\ BunnyInit /\ bridge
    /\ AppInit /\ hash = <<>>
    /\ ChatInit
SpecChat == InitChat /\ [][ChatNext]_vars

\* the host process alone (the panel's UI process is left out)
InitHost ==
    /\ HostInit
    /\ PanelInit(CardLimits, 1)
    /\ BunnyInit /\ bridge
    /\ AppInit /\ hash = <<>>
    /\ ChatInit
SpecHost == InitHost /\ [][HostNext]_vars

\* the panel's UI process against the remote store: one conversation card
\* with several calls in flight
InitCard ==
    /\ HostInit /\ platform = "darwin" /\ workArea = Display(1, 1)
    /\ PanelInit(CardLimits, 1)
    /\ BunnyInit /\ bridge
    /\ AppInit /\ hash = <<>>
    /\ ChatInit
SpecCard == InitCard /\ [][PanelNext]_vars

\* the panel's UI process against the remote store: one conversation card
\* with several reconciles in flight
InitPoll ==
    /\ HostInit /\ platform = "darwin" /\ workArea = Display(1, 1)
    /\ PanelInit(PollLimits, 1)
    /\ BunnyInit /\ bridge
    /\ AppInit /\ hash = <<>>
    /\ ChatInit
SpecPoll == InitPoll /\ [][PanelNext]_vars

\* the panel's UI process against the remote store: several conversations
InitList ==
    /\ HostInit /\ platform = "darwin" /\ workArea = Display(1, 1)
    /\ PanelInit(ListLimits, MaxActivity)
    /\ BunnyInit /\ bridge
    /\ AppInit /\ hash = <<>>
    /\ ChatInit
SpecList == InitList /\ [][PanelNext]_vars

\* the companion's UI process against the unread-count endpoint
InitBunny ==
    /\ HostInit /\ platform = "darwin" /\ workArea = Display(1, 1)
    /\ PanelInit(CardLimits, 1)
    /\ BunnyInit
    /\ AppInit /\ hash = <<>>
    /\ ChatInit
SpecBunny == InitBunny /\ [][BunnyNext]_vars

\* the two call sites of the bridge, in a desktop shell (bridge present) and
\* in a plain browser (bridge absent); the store does not answer
InitBridge ==
    /\ HostInit /\ platform = "darwin" /\ workArea = Display(1, 1)
    /\ PanelInit(CardLimits, 1)
    /\ BunnyInit
    /\ AppInit /\ hash = <<>>
    /\ ChatInit
BridgeNext ==
    \/ BunnyMount
    \/ PollTick
    \/ PollFailed
    \/ BunnyClick
    \/ BounceTimeout
    \/ BunnyClose
    \/ Mount
    \/ HandleClose
    \/ \E t \in Tabs : SetActiveTab(t)
    \/ PanelClose
SpecBridge == InitBridge /\ [][BridgeNext]_vars

\* a UI process at load
InitApp ==
    /\ HostInit /\ platform = "darwin" /\ workArea = Display(1, 1)
    /\ PanelInit(CardLimits, 1)
    /\ BunnyInit /\ bridge
    /\ AppInit
    /\ ChatInit
SpecApp == InitApp /\ [][AppNext]_vars

\* ---------------------------------------------------------------- claims
IsSortedDesc(s) ==
    \A k \in 1..(Len(s) - 1) : s[k].last_activity >= s[k + 1].last_activity
\* a and b hold the same conversations, each as often
SameConversations(a, b) ==
    /\ Len(a) = Len(b)
    /\ \A k \in 1..Len(a) :
          Cardinality({j \in 1..Len(a) : a[j] = a[k]})
              = Cardinality({j \in 1..Len(b) : b[j] = a[k]})
UnreadInMirror == Cardinality({k \in 1..Len(mirror) : ~mirror[k].read})

\* C1: in every reachable host state at most one live panel window and at
\* most one live companion window exist.
C1_AtMostOneLiveWindowPerKind ==
    /\ Cardinality(OpenWindows("panel")) <= 1
    /\ Cardinality(OpenWindows("pet")) <= 1

\* C2: for every conversation card at most one summarize request is
\* outstanding at any time.
C2_OneOutstandingSummarize ==
    \A i \in ConvIds : NumSummarizeReqs(i) <= 1

\* C3: when a click on an unread card has triggered a reconcile, the markRead
\* request of that click has completed before the reconcile's fetch is sent.
C3_ReconcileAfterMutation ==
    (ev.op = "click" /\ ev.unread) =>
        ~\E r \in InFlight : r.op = "markRead" /\ r.cont = "click" /\ r.id = ev.id

\* C4 (as claimed): once markRead(id) has resolved, any reconcile applied
\* from then on leaves the mirror entry of id read.
C4_ReadAfterAnyReconcile ==
    ev.op = "fetchApplied" =>
        \A i \in resolved \cap MirrorIds(mirror) : Entry(mirror, i).read

\* C4 (amended): once markRead(id) has resolved, a reconcile whose fetch the
\* store answered after that resolution leaves the mirror entry of id read
\* when it is applied.
C4_ReadAfterFreshReconcile ==
    ev.op = "fetchApplied" =>
        \A i \in ev.seen : i \in MirrorIds(mirror) /\ Entry(mirror, i).read
C4_Witness ==
    /\ ev.op = "fetchApplied"
    /\ ev.seen # {}
    /\ \A i \in ev.seen : i \in MirrorIds(mirror) /\ Entry(mirror, i).read

\* C5: right after a successful reconcile the mirror is ordered by
\* last_activity descending and holds exactly the response's conversations.
C5_SortedAfterReconcile ==
    ev.op = "fetchApplied" =>
        /\ IsSortedDesc(mirror)
        /\ SameConversations(mirror, ev.convs)
C5_Witness ==
    /\ ev.op = "fetchApplied"
    /\ Len(ev.convs) >= 2
    /\ ~IsSortedDesc(ev.convs)
    /\ IsSortedDesc(mirror)

\* C6: unreadCount is never negative and is the unread_count of the response
\* applied last (0 before any), not a count of the mirror's read flags.
C6_UnreadCountIsReported ==
    /\ unreadCount >= 0
    /\ unreadCount = lastCount
C6_Witness ==
    /\ ev.op = "fetchApplied"
    /\ unreadCount = lastCount
    /\ unreadCount # UnreadInMirror

\* C7: when a summarize request fails on a mounted card whose summary is
\* null, the card is left not loading, without a summary, and so
\* collapsed-unsummarized.
C7_FailureReturnsToUnsummarized ==
    (ev.op = "summarizeFailed" /\ ev.cont = "hs" /\ ~ev.card.summary) =>
        /\ ~cards[ev.id].loading
        /\ ~cards[ev.id].summary
        /\ CardState(cards[ev.id]) = "collapsed-unsummarized"
C7_Witness ==
    /\ ev.op = "summarizeFailed" /\ ev.cont = "hs" /\ ~ev.card.summary
    /\ ev.card.loading
    /\ cards[ev.id].mounted
    /\ CardState(cards[ev.id]) = "collapsed-unsummarized"

\* C8: when a summarize request fails, the card shows an error indicator.
C8_ErrorShownAfterFailure ==
    (ev.op = "summarizeFailed" /\ ev.cont = "hs") => "error" \in CardView(ev.id)

\* C9: no failure of a remote call escapes as an unhandled rejection.
C9_NoUnhandledRejection ==
    ev.op # "unhandledRejection"

\* C10: a failed reconcile fetch leaves the mirror, unreadCount and every
\* other state of the panel as they were, and clears the panel's loading
\* flag (summarizingAll is cleared by handleSummarizeAll when it awaited
\* that reconcile).
C10_FailedReconcileKeepsState ==
    [][ev'.op = "fetchFailed" =>
          /\ mirror' = mirror
          /\ unreadCount' = unreadCount
          /\ cards' = cards
          /\ activeTab' = activeTab
          /\ ~panelLoading'
          /\ (ev'.cont # "loadSA" => summarizingAll' = summarizingAll)]_vars
C10_Witness ==
    /\ ev.op = "fetchFailed"
    /\ mirror # <<>>
    /\ unreadCount > 0
    /\ ~panelLoading

\* ---- the host's claims
HostState == <<phase, platform, petWindow, summaryWindow, wins>>
PetWindows == {w \in WindowIds : wins[w].kind = "pet"}

C12_ToggleDependsOnHandle ==
    [][(hev'.op = "toggle" /\ hev' # hev) =>
          IF summaryWindow = Null
          THEN /\ wins' = Append(wins, NewWindow("panel"))
               /\ summaryWindow' = Len(wins')
               /\ petWindow' = petWindow
          ELSE /\ summaryWindow' = Null
               /\ wins' = CloseCall(summaryWindow)
               /\ wins'[summaryWindow].st # "open"
               /\ petWindow' = petWindow]_vars
C12_Witness ==
    /\ hev.op = "toggle" /\ hev.run = 2 /\ hev.prior = "closed"
    /\ summaryWindow = Null
    /\ \E w \in WindowIds : wins[w].kind = "panel" /\ wins[w].st = "closing"

\* C13: after an open-summary command the handle is present and no panel
\* window other than the handle's is live.
C13_OpenLeavesOnePanel ==
    hev.op = "open" =>
        /\ summaryWindow # Null
        /\ OpenWindows("panel") \subseteq {summaryWindow}

\* C14: close-summary with the handle present closes the window the handle
\* holds and clears the handle; with the handle absent it changes nothing of
\* the host's state.
C14_CloseClearsHandle ==
    [][(hev'.op = "close" /\ hev' # hev) =>
          IF summaryWindow # Null
          THEN /\ summaryWindow' = Null
               /\ wins' = CloseCall(summaryWindow)
               /\ wins'[summaryWindow].st # "open"
               /\ <<phase, platform, petWindow>>' = <<phase, platform, petWindow>>
          ELSE HostState' = HostState]_vars
C14_Witness ==
    /\ hev.op = "close"
    /\ summaryWindow = Null
    /\ \E w \in WindowIds : wins[w].kind = "panel" /\ wins[w].st = "closing"

\* C15: an 'activate' event with the companion handle absent constructs a new
\* companion window and sets the handle to it; with the handle present it
\* constructs nothing and changes nothing of the host's state.
C15_ActivateEnsuresCompanion ==
    [][(hev'.op = "activate" /\ hev' # hev) =>
          IF petWindow = Null
          THEN /\ wins' = Append(wins, NewWindow("pet"))
               /\ petWindow' = Len(wins')
               /\ <<phase, platform, summaryWindow>>' = <<phase, platform, summaryWindow>>
          ELSE HostState' = HostState]_vars
C15_Witness ==
    /\ hev.op = "activate"
    /\ petWindow # Null /\ wins[petWindow].st = "open"
    /\ \E w \in PetWindows : wins[w].st = "destroyed"

\* C16 (as claimed): over a run the companion window is constructed at most
\* once, and it stays open while the host runs.
C16_CompanionCreatedOnce ==
    /\ Cardinality(PetWindows) <= 1
    /\ phase = "running" => PetWindows \cap UndestroyedWindows # {}

\* C16 (amended): a companion window is constructed only at start-up or by
\* an 'activate' event that finds the handle absent and every earlier
\* companion window destroyed; at most one companion window exists at a time.
C16_CompanionRecreatedOnActivation ==
    /\ [](Cardinality(PetWindows \cap UndestroyedWindows) <= 1)
    /\ [][Len(wins') > Len(wins) /\ wins'[Len(wins')].kind = "pet" =>
            \/ hev'.op = "ready" /\ wins = <<>>
            \/ /\ hev'.op = "activate"
               /\ petWindow = Null
               /\ PetWindows \cap UndestroyedWindows = {}]_vars
C16_Witness ==
    /\ Cardinality(PetWindows) >= 2
    /\ Cardinality(PetWindows \cap UndestroyedWindows) = 1
    /\ phase = "running"

\* ---- the bulk operation's claims
\* C17: at most one summarizeAll request is in flight; summarizingAll is true
\* exactly while that request, or the reconcile handleSummarizeAll awaits
\* after it, is in flight, so the button cannot start a second one meanwhile
\* and the flag is false again when the operation has resolved or failed.
C17_OneSummarizeAllOutstanding ==
    /\ NumSummarizeAllReqs + NumLoadSA <= 1
    /\ summarizingAll <=> (NumSummarizeAllReqs + NumLoadSA = 1)
C17_Witness ==
    /\ summarizingAll
    /\ NumSummarizeAllReqs = 1
    /\ activeTab = "messages" /\ Len(mirror) # 0 /\ NumCalls < MaxCalls

\* C18: the step at which a summarizeAll request resolves starts exactly one
\* reconcile, with no summarizeAll request left in flight; summarizingAll
\* stays true while that reconcile is in flight and is cleared only by its
\* completion (or by the failure of the summarizeAll request), whatever the
\* store summarized.
C18_ReconcileAfterSummarizeAll ==
    /\ [](NumLoadSA <= 1)
    /\ [](NumLoadSA = 1 => summarizingAll /\ NumSummarizeAllReqs = 0)
    /\ [][ev'.op = "summarizeAllResolved" =>
            /\ NumLoadSA = 0 /\ NumLoadSA' = 1
            /\ NumFetches' = NumFetches + 1
            /\ summarizingAll']_vars
    /\ [][(summarizingAll /\ ~summarizingAll' /\ panelLife' = "mounted") =>
            \/ ev'.op \in {"fetchApplied", "fetchFailed"} /\ ev'.cont = "loadSA"
            \/ ev'.op = "summarizeAllFailed"]_vars
C18_Witness ==
    /\ ev.op = "fetchApplied" /\ ev.cont = "loadSA"
    /\ ~summarizingAll
    /\ nconv > 0 /\ storeSumm # 1..nconv

\* ---- the companion's claims
\* C19: right after a badge poll completed, successfully or not, mood is
\* 'excited' exactly when the stored unreadCount is > 0 and 'idle' exactly
\* when it is 0.
C19_MoodMatchesCounter ==
    bev.op \in {"pollOk", "pollFailed"} =>
        /\ mood = "excited" <=> bunnyUnreadCount > 0
        /\ mood = "idle" <=> bunnyUnreadCount = 0

\* C20: a completed badge poll changes the mood or triggers a bounce only
\* when it observed a counter different from the stored one; a poll that
\* observed the stored counter, and a poll that failed, trigger nothing.
C20_TriggersOnlyOnCounterChange ==
    (bev.op \in {"pollOk", "pollFailed"} /\ (mood # bev.before.mood \/ bev.bounce)) =>
        bev.op = "pollOk" /\ bev.count # bev.before.unreadCount

\* ---- the App's claim
\* the selector: location.hash without its leading '#'
Selector(h) == IF h = <<>> THEN <<>> ELSE Tail(h)

\* C27: once App's effect has run the view is 'summary' exactly when the
\* selector the process was loaded with is 'summary', 'pet' for every other
\* selector, and no later step changes the view.
C27_ViewFromSelector ==
    /\ [][appLife = "rendered" /\ appLife' = "resolved" =>
            /\ view' = "summary" <=> Selector(hash) = <<"summary">>
            /\ view' = "pet" <=> Selector(hash) # <<"summary">>]_vars
    /\ [][appLife = "resolved" => view' = view /\ appLife' = "resolved"]_vars
C27_Witness ==
    /\ appLife = "resolved"
    /\ view = "summary"
    /\ hash # <<"#", "summary">>

\* ---- more claims of the panel
\* C22: every click on a card whose mirror entry is unread sends one
\* markRead request for that conversation, whatever the card's state.
C22_ClickOnUnreadMarksRead ==
    [][(ev'.op = "click" /\ <<cards, reqs>>' # <<cards, reqs>>
            /\ ~Entry(mirror, ev'.id).read) =>
          CopiesIn(Req("markRead", ev'.id, "click"), reqs')
              = CopiesIn(Req("markRead", ev'.id, "click"), reqs) + 1]_vars
C22_Witness ==
    /\ ev.op = "click" /\ ev.unread
    /\ ev.card.loading
    /\ Req("markRead", ev.id, "click") \in InFlight

\* C24: the reconcile interval is set exactly while the panel is mounted:
\* the mount sets it and sends one fetch, a timer-driven fetch is sent only
\* while mounted, and after the unmount no request is sent any more.
C24_TimerOnlyWhileMounted ==
    /\ [](interval <=> panelLife = "mounted")
    /\ [][(panelLife = "init" /\ panelLife' = "mounted") =>
            interval' /\ NumFetches = 0 /\ reqs' = One(Req("list", 0, "load"))]_vars
    /\ [][(ev'.op = "timerTick" /\ reqs' # reqs) =>
            panelLife = "mounted" /\ panelLife' = "mounted"]_vars
    /\ [][panelLife = "closed" => reqs' = reqs /\ reqs = EmptyBag]_vars
C24_Witness ==
    /\ panelLife = "closed"
    /\ ~interval
    /\ reqs = EmptyBag
    /\ nconv > 0

\* C28: the mirror, and so every read flag in it, changes only when a
\* reconcile response is applied (or the panel is torn down): clicks,
\* summarize, markRead, markAllRead and summarizeAll leave it as it is.
C28_MirrorChangesOnlyByReconcile ==
    [][mirror' # mirror => ev'.op = "fetchApplied" \/ panelLife' = "closed"]_vars
C28_Witness ==
    /\ ev.op = "click" /\ ev.unread
    /\ ~Entry(mirror, ev.id).read
    /\ ev.id \in storeRead

\* the states a card's render puts it in: the preview (collapsed-
\* unsummarized), the spinner (loading), the summary collapsed or expanded
StatesOf(c) ==
    (IF ~c.summary /\ ~c.loading THEN {"collapsed-unsummarized"} ELSE {})
    \cup (IF c.loading THEN {"loading"} ELSE {})
    \cup (IF c.summary /\ ~c.expanded THEN {"collapsed-summarized"} ELSE {})
    \cup (IF c.summary /\ c.expanded THEN {"expanded-summarized"} ELSE {})
\* the transitions of the card's state machine; clicked: the step is a click
\* on the card
CardTransition(s, t, clicked) ==
    \/ s = t
    \/ s = "collapsed-unsummarized" /\ t = "loading" /\ clicked
    \/ s = "loading" /\ t \in {"collapsed-summarized", "collapsed-unsummarized"} /\ ~clicked
    \/ s = "collapsed-summarized" /\ t = "expanded-summarized" /\ clicked
    \/ s = "expanded-summarized" /\ t = "collapsed-summarized" /\ clicked

\* C23: a mounted card is in exactly one of the four states, and a step
\* takes it from one state to another only along the state machine's
\* transitions.
C23_CardStateMachine ==
    /\ [](\A i \in ConvIds : cards[i].mounted => Cardinality(StatesOf(cards[i])) = 1)
    /\ [][\A i \in ConvIds :
            (cards[i].mounted /\ cards'[i].mounted) =>
                CardTransition(CardState(cards[i]), CardState(cards'[i]),
                               ev'.op = "click" /\ ev'.id = i)]_vars

\* C25: when the response of a summarize request arrives for a card that
\* has been unmounted meanwhile, it is discarded: nothing is sent for it.
C25_ResultDiscardedAfterTeardown ==
    (ev.op = "summarizeDelivered" /\ ev.cont = "hsx") =>
        ~\E r \in InFlight : r.op = "markRead" /\ r.cont = "hsx" /\ r.id = ev.id

\* C29: when the reconcile that handleSummarizeAll awaits is applied and the
\* store had summarized every conversation, every mirror entry has a summary
\* and is read.
C29_AllSummarizedAndRead ==
    (ev.op = "fetchApplied" /\ ev.cont = "loadSA" /\ ev.bulk = "all") =>
        \A k \in 1..Len(mirror) : mirror[k].summary /\ mirror[k].read

\* C30: whenever a reconcile response is applied, the mirror and unreadCount
\* are those of that response, also when its fetch was sent before a fetch
\* whose response has been applied already.
C30_LastAppliedWins ==
    ev.op = "fetchApplied" =>
        /\ mirror = SortDesc(ev.convs)
        /\ unreadCount = lastCount
C30_Witness ==
    /\ ev.op = "fetchApplied" /\ ev.late
    /\ NumFetches = 0
    /\ mirror = SortDesc(ev.convs)
    /\ \E i \in storeRead \cap MirrorIds(mirror) : i \in resolved /\ ~Entry(mirror, i).read

\* C21: when the bridge is absent, a click on the companion and a press of
\* the panel's close button send no window command and raise no error, and
\* the rest of the handler still takes effect: the companion bounces and its
\* timeout is scheduled, the panel's state is left as it was.
C21_NoBridgeNoCommand ==
    [][~bridge =>
         /\ toggleSent' = toggleSent /\ closeSent' = closeSent
         /\ bev'.op # "typeError" /\ ev'.op # "typeError"
         /\ (bev'.op = "click" /\ bunnyVars' # bunnyVars)
              => /\ bouncing' /\ bounceTimers' = bounceTimers + 1
                 /\ <<bunnyLife, bunnyUnreadCount, mood, polls, pollInterval>>'
                      = <<bunnyLife, bunnyUnreadCount, mood, polls, pollInterval>>
         /\ (ev'.op = "handleClose" /\ ev' # ev)
              => <<uiVars, storeVars>>' = <<uiVars, storeVars>>]_vars
C21_Witness ==
    /\ ~bridge
    /\ bev.op = "click" /\ bouncing /\ bounceTimers > 0
    /\ ev.op = "handleClose" /\ panelLife = "mounted" /\ interval
    /\ toggleSent = 0 /\ closeSent = 0

\* the renderers of the companion windows; the windows that show the panel
\* and what they show; what belongs to the badge poll in every renderer
PetUi == [w \in PetWindows |-> wins[w].ui]
PanelPart == [w \in WindowIds \ PetWindows |-> wins[w]]
PanelViews == {w \in WindowIds : Shows(w, "summary")}
PanelShown == [w \in PanelViews |-> <<wins[w].ui.conversations, wins[w].ui.unreadCount>>]
BadgePart ==
    [w \in WindowIds |->
        IF wins[w].ui.view = "pet" THEN <<wins[w].ui>>
        ELSE <<wins[w].ui.stray, wins[w].ui.timeouts>>]

\* C26: the badge poll's timer is set for as long as a companion view is
\* mounted and can fire then whatever the state of the panel handle, of the
\* panel windows and of their renderers; no step that changes the panel
\* handle or a panel window (open, close, toggle, mount, reconcile,
\* teardown) changes the timer, polls or counter of a companion window; and
\* no step of a badge poll (tick, answer, failure, timeout, also of a
\* BunnyPet already unmounted) changes the list or the unread count a panel
\* shows.
C26_BadgePollIndependent ==
    /\ [](\A w \in WindowIds : Shows(w, "pet") => wins[w].ui.interval)
    /\ [](\A w \in WindowIds :
            (Shows(w, "pet") /\ wins[w].ui.polls < DeskPolls)
                => ENABLED DeskPollTick(w))
    /\ [][((summaryWindow' # summaryWindow \/ PanelPart' # PanelPart)
             /\ PetWindows' = PetWindows)
            => PetUi' = PetUi]_vars
    /\ [][(BadgePart' # BadgePart /\ PanelViews' = PanelViews)
            => PanelShown' = PanelShown]_vars
\* the panel was closed and opened again, the second panel's renderer has
\* applied a reconcile and the poll of the BunnyPet it had mounted first is
\* still in flight, and the companion's poll has been answered with another
\* count and the next one is in flight
C26_Witness ==
    /\ \E w \in PetWindows :
          /\ Shows(w, "pet") /\ wins[w].ui.unreadCount > 0 /\ wins[w].ui.mood = "excited"
          /\ wins[w].ui.polls > 0
    /\ \E p \in WindowIds : wins[p].kind = "panel" /\ wins[p].st = "destroyed"
    /\ \E p \in WindowIds :
          /\ Shows(p, "summary") /\ summaryWindow = p /\ wins[p].ui.stray > 0
          /\ wins[p].ui.conversations # <<>> /\ wins[p].ui.unreadCount > 0

\* two rectangles share a point
Overlap(a, b) ==
    /\ a.x < b.x + b.width /\ b.x < a.x + a.width
    /\ a.y < b.y + b.height /\ b.y < a.y + a.height

\* C32: for every work-area size of the primary display, a panel window
\* created for that size has its right edge strictly left of the left edge
\* of a companion window created for the same size, and its bottom edge at
\* the same inset from the bottom of the work area as the companion's: the
\* two rectangles are disjoint.
C32_PanelLeftOfCompanion ==
    \A p \in WindowIds : \A c \in WindowIds :
        (wins[p].kind = "panel" /\ wins[c].kind = "pet"
         /\ wins[p].screen = wins[c].screen) =>
            /\ wins[p].bounds.x + wins[p].bounds.width < wins[c].bounds.x
            /\ wins[p].screen.height - (wins[p].bounds.y + wins[p].bounds.height)
                 = wins[c].screen.height - (wins[c].bounds.y + wins[c].bounds.height)
            /\ ~Overlap(wins[p].bounds, wins[c].bounds)
\* a panel and a companion window side by side, both created for a display
\* narrower than the two of them
C32_Witness ==
    \E p \in OpenWindows("panel") : \E c \in OpenWindows("pet") :
        /\ wins[p].screen = Display(1, 1) /\ wins[c].screen = Display(1, 1)
        /\ wins[p].bounds.x < 0

\* C33: every live panel window is the one the host's panel handle
\* references.
C33_LivePanelIsReferenced ==
    \A w \in OpenWindows("panel") : summaryWindow = w

\* C34: a non-null panel handle references a window that has not been
\* destroyed, so the show() and focus() of open-summary are never called on
\* a destroyed window.
C34_HandleNotDestroyed ==
    summaryWindow # Null =>
        summaryWindow \in WindowIds /\ wins[summaryWindow].st # "destroyed"
\* open-summary has shown the window the user had asked the OS to close,
\* after an earlier panel window was destroyed
C34_Witness ==
    /\ hev.op = "open"
    /\ summaryWindow # Null /\ wins[summaryWindow].st = "closing"
    /\ \E w \in WindowIds : wins[w].kind = "panel" /\ wins[w].st = "destroyed"

\* the companion windows
PetPart == [w \in PetWindows |-> wins[w]]

\* C35: no open-summary, close-summary or toggle-summary step changes the
\* companion handle or any companion window; the companion handle changes
\* only at startup, on activation, and on the 'closed' event of a companion
\* window.
C35_PanelCommandsLeaveCompanion ==
    /\ [][(petWindow' # petWindow \/ PetPart' # PetPart)
            => ~(hev'.op \in {"open", "close", "toggle"})]_vars
    /\ [][petWindow' # petWindow
            => \/ hev'.op \in {"ready", "activate"}
               \/ /\ hev'.op = "closed"
                  /\ \E w \in PetWindows :
                        wins[w].st # "destroyed" /\ wins'[w].st = "destroyed"]_vars
\* two toggles have opened and closed the panel beside the live companion
C35_Witness ==
    /\ hev.op = "toggle" /\ hev.run = 2
    /\ petWindow # Null /\ wins[petWindow].st = "open"
    /\ \E w \in WindowIds : wins[w].kind = "panel" /\ wins[w].st = "closing"

\* C31: every step that changes the mirror or unreadCount applies one list
\* response to both (the whole sorted list of that response, and its count),
\* or is the teardown of the panel: no state shows the list of one response
\* beside the count of another, nor a partly replaced list.
C31_MirrorAndCountFromSameResponse ==
    /\ [](unreadCount = lastCount)
    /\ [][(mirror' # mirror \/ unreadCount' # unreadCount \/ lastCount' # lastCount) =>
            \/ /\ ev'.op = "fetchApplied"
               /\ mirror' = SortDesc(ev'.convs)
               /\ unreadCount' = lastCount'
            \/ /\ panelLife' = "closed"
               /\ mirror' = <<>> /\ unreadCount' = 0]_vars
\* a response sent before another one has been applied after it and has
\* replaced both the list and the count
C31_Witness ==
    /\ ev.op = "fetchApplied" /\ ev.late
    /\ Len(mirror) > 0 /\ mirror = SortDesc(ev.convs)
    /\ unreadCount = 1 /\ UnreadInMirror = 0

\* C36: right after a reconcile has been applied, every mounted card that has
\* no request of its own in flight shows a summary exactly when its mirror
\* entry holds one.
C36_CardAgreesWithMirror ==
    ev.op = "fetchApplied" =>
        \A i \in ConvIds :
            (cards[i].mounted /\ ~\E r \in InFlight : r.id = i)
                => (cards[i].summary <=> Entry(mirror, i).summary)

\* C37: a mounted card's loading flag is true exactly while a summarize
\* sequence that card started (its summarize request or the markRead that
\* follows it) is outstanding.
C37_LoadingIffSummarizeOutstanding ==
    \A i \in ConvIds :
        cards[i].mounted =>
            (cards[i].loading <=> \E r \in InFlight : r.cont = "hs" /\ r.id = i)

\* C38: one click sends at most one markRead and starts at most one
\* reconcile for its conversation: no markRead and no fetch is in flight
\* that was issued on behalf of a click which had sent its own before.
C38_OneMarkReadOneReconcilePerClick ==
    ~\E r \in InFlight : r.op \in {"markRead", "list"} /\ r.twice

\* C39: the transcript starts with the greeting, every later assistant
\* message comes right after the user message it answers, and at most one
\* chat request is outstanding.
C39_TranscriptAlternates ==
    /\ chatMessages # <<>> /\ chatMessages[1] = GREETING
    /\ \A k \in 2..Len(chatMessages) :
          chatMessages[k].role = "assistant" =>
              /\ chatMessages[k - 1].role = "user"
              /\ chatMessages[k - 1].content = chatMessages[k].re
    /\ Len(chatReqs) <= 1
====
